---- MODULE Spec2Model ----
(***************************************************************************)
(* secfs: Kubernetes secrets presented as an afero filesystem.             *)
(*   namespace -> directory, secret -> directory, secret key -> file.      *)
(* The model follows the secfs revision of the repository: the facade      *)
(* (secfs.Create/Mkdir/Open/Remove/RemoveAll/Rename), the File handle, the *)
(* backend (Create/Get/Update/Delete/Rename) and the path parser.          *)
(*                                                                         *)
(* A Go string is a sequence of tokens: the separator "/" or an opaque     *)
(* name. The string "" is the empty sequence.  The names handed to the     *)
(* path parser alone are sequences of the characters "/", "a" and ".".     *)
(***************************************************************************)
EXTENDS Integers, Sequences, FiniteSets, TLC

VARIABLES store, handles, last

vars == <<store, handles, last>>

(***************************************************************************)
(* Bounds of the model.                                                    *)
(***************************************************************************)
\* longest byte string a caller writes in one call
MaxLen == 2
\* latest client request of one operation that the fault input can reject
MaxFault == 8
\* longest name handed to the path parser, in characters
MaxPath == 7
\* goroutines that call one File at the same time
MaxProcs == 2

(***************************************************************************)
(* Strings and the universe of names.                                      *)
(***************************************************************************)
Slash == "/"

EmptyStr == << >>

\* the secrets the callers address: two in one namespace, one in another
Containers == { << <<"n1">>, <<"s1">> >>, << <<"n1">>, <<"s2">> >>, << <<"n2">>, <<"s1">> >> }

Keys == { <<"k1">>, <<"k2">> }

Bytes == { 0, 1 }

RECURSIVE SeqsUpTo(_, _)
SeqsUpTo(S, n) ==
    IF n = 0 THEN { << >> }
    ELSE LET shorter == SeqsUpTo(S, n - 1)
         IN shorter \cup { Append(s, x) : s \in { t \in shorter : Len(t) = n - 1 }, x \in S }

\* the byte strings callers write
Values == SeqsUpTo(Bytes, MaxLen)

\* the values the secrets of a cluster hold when the filesystem is constructed
SeedValues == { << >>, <<1>> }

DirName(c) == c[1] \o <<Slash>> \o c[2]

LeafName(c, k) == c[1] \o <<Slash>> \o c[2] \o <<Slash>> \o k

DirNames == { DirName(c) : c \in Containers }

LeafNames == { LeafName(c, k) : c \in Containers, k \in Keys }

\* the characters of the names handed to the path parser
PathChars == { Slash, "a", "." }

\* the names handed to the path parser
RawNames == SeqsUpTo(PathChars, MaxPath)

\* a name with one segment only: no path of the filesystem
BadNames == { <<"n1">> }

Names == DirNames \cup LeafNames \cup BadNames

(***************************************************************************)
(* Errors.  Nil is Go's nil error.                                         *)
(***************************************************************************)
Nil == "nil"

\* wrapPathError / wrapLinkError: EEXIST and ENOENT become fs.ErrExist and
\* fs.ErrNotExist, every other error is wrapped as it is
wrapPathError(err) ==
    CASE err = "EEXIST" -> "ErrExist"
      [] err = "ENOENT" -> "ErrNotExist"
      [] OTHER -> err

wrapLinkError(err) ==
    CASE err = "EEXIST" -> "ErrExist"
      [] err = "ENOENT" -> "ErrNotExist"
      [] OTHER -> err

\* errors.Is(err, fs.ErrNotExist): syscall.ENOENT matches fs.ErrNotExist
IsNotExist(err) == err \in { "ENOENT", "ErrNotExist" }

\* errors.Is(err, fs.ErrExist)
IsExist(err) == err \in { "EEXIST", "ErrExist" }

(***************************************************************************)
(* path.go: the path parser.                                               *)
(***************************************************************************)
RECURSIVE TrimLeft(_)
TrimLeft(s) == IF s # << >> /\ Head(s) = Slash THEN TrimLeft(Tail(s)) ELSE s

RECURSIVE TrimRight(_)
TrimRight(s) ==
    IF s # << >> /\ s[Len(s)] = Slash THEN TrimRight(SubSeq(s, 1, Len(s) - 1)) ELSE s

\* strings.Trim(name, "/"): every leading and every trailing separator goes
Trim(s) == TrimRight(TrimLeft(s))

\* strings.Split(s, "/"): the substrings between the separators, "" included;
\* a string without separator is its only part
RECURSIVE Split(_)
Split(s) ==
    IF \A i \in 1..Len(s) : s[i] # Slash THEN << s >>
    ELSE LET i == CHOOSE j \in 1..Len(s) :
                      s[j] = Slash /\ \A m \in 1..(j - 1) : s[m] # Slash
         IN << SubSeq(s, 1, i - 1) >> \o Split(SubSeq(s, i + 1, Len(s)))

NoPath == [namespace |-> EmptyStr, secret |-> EmptyStr, key |-> EmptyStr, isDir |-> FALSE]

\* a parser that takes every part after the second for the key
PathOfLoose(parts) ==
    IF Len(parts) < 2
    THEN [err |-> "EINVAL", p |-> NoPath]
    ELSE [err |-> Nil,
          p |-> [namespace |-> parts[1],
                 secret |-> parts[2],
                 key |-> IF Len(parts) >= 3 THEN parts[3] ELSE EmptyStr,
                 isDir |-> Len(parts) = 2]]

\* the secretPath of the parts of a name: two parts are a secret, three a
\* file, anything else is EINVAL
PathOf(parts) ==
    IF Len(parts) < 2 \/ Len(parts) > 3
    THEN [err |-> "EINVAL", p |-> NoPath]
    ELSE [err |-> Nil,
          p |-> [namespace |-> parts[1],
                 secret |-> parts[2],
                 key |-> IF Len(parts) = 3 THEN parts[3] ELSE EmptyStr,
                 isDir |-> Len(parts) = 2]]

\* newSecretPath: [err, p]
newSecretPath(name) == PathOf(Split(Trim(name)))

\* secretPath.Name: the key of a file, the secret of a directory
PathName(p) == IF p.key # EmptyStr THEN p.key ELSE p.secret

\* the path elements "." and ".."
Dot == << "." >>

DotDot == << ".", "." >>

\* the elements of a cleaned path: empty and "." elements go, ".." takes the
\* element before it away; at the start ".." stays, unless the path is rooted
RECURSIVE CleanParts(_, _, _)
CleanParts(parts, out, rooted) ==
    IF parts = << >> THEN out
    ELSE IF Head(parts) = EmptyStr \/ Head(parts) = Dot
    THEN CleanParts(Tail(parts), out, rooted)
    ELSE IF Head(parts) = DotDot
    THEN IF out # << >> /\ out[Len(out)] # DotDot
         THEN CleanParts(Tail(parts), SubSeq(out, 1, Len(out) - 1), rooted)
         ELSE IF rooted THEN CleanParts(Tail(parts), out, rooted)
         ELSE CleanParts(Tail(parts), Append(out, DotDot), rooted)
    ELSE CleanParts(Tail(parts), Append(out, Head(parts)), rooted)

\* elements with a separator between them
RECURSIVE Glue(_)
Glue(parts) ==
    IF parts = << >> THEN EmptyStr
    ELSE IF Len(parts) = 1 THEN Head(parts)
    ELSE Head(parts) \o <<Slash>> \o Glue(Tail(parts))

\* path.Clean: the shortest equivalent path; "." for the empty path
Clean(path) ==
    IF path = EmptyStr THEN Dot
    ELSE IF Head(path) = Slash
    THEN <<Slash>> \o Glue(CleanParts(Split(path), << >>, TRUE))
    ELSE IF CleanParts(Split(path), << >>, FALSE) = << >> THEN Dot
    ELSE Glue(CleanParts(Split(path), << >>, FALSE))

\* path.Join before Clean: the elements from the first non-empty one on, with
\* a separator before each but the first
RECURSIVE JoinBuf(_, _)
JoinBuf(elems, buf) ==
    IF elems = << >> THEN buf
    ELSE IF buf # EmptyStr THEN JoinBuf(Tail(elems), buf \o <<Slash>> \o Head(elems))
    ELSE JoinBuf(Tail(elems), Head(elems))

\* path.Join: "" when every element is empty, else the cleaned JoinBuf
Join(elems) ==
    IF \A i \in 1..Len(elems) : elems[i] = EmptyStr THEN EmptyStr
    ELSE Clean(JoinBuf(elems, EmptyStr))

\* secretPath.Absolute
Absolute(p) == Join(<< p.namespace, p.secret, p.key >>)

(***************************************************************************)
(* The cluster: the secrets behind the Kubernetes client.  A secret is     *)
(* absent or holds its data map and the secfs annotation (managed).        *)
(***************************************************************************)
EmptyData == [k \in {} |-> << >>]

Absent == [exists |-> FALSE, managed |-> FALSE, data |-> EmptyData]

Secret(managed, data) == [exists |-> TRUE, managed |-> managed, data |-> data]

SetKey(data, k, v) == [x \in (DOMAIN data) \cup {k} |-> IF x = k THEN v ELSE data[x]]

DelKey(data, k) == [x \in (DOMAIN data) \ {k} |-> data[x]]

\* backend.prefix / backend.suffix: the defaults, ""
SecretPrefix == EmptyStr

SecretSuffix == EmptyStr

\* backend.internalName: the name of the secret in the cluster
internalName(name) == SecretPrefix \o name \o SecretSuffix

\* the object a request addresses
Obj(ns, name) == << ns, name >>

StoreKeys == { Obj(c[1], internalName(c[2])) : c \in Containers }

\* A world is the cluster and the fault input: w.f = i > 0 makes the i-th
\* client request from here fail (timeout, transport), w.f = 0 none.
World(st, f) == [st |-> st, f |-> f]

Rejected(w) == w.f = 1

Tick(w, st) == [st |-> st, f |-> IF w.f > 0 THEN w.f - 1 ELSE 0]

\* Secrets(ns).Get
kGet(w, ns, name) ==
    IF Rejected(w) THEN [w |-> Tick(w, w.st), err |-> "ETransport", ks |-> Absent]
    ELSE IF ~w.st[Obj(ns, name)].exists
         THEN [w |-> Tick(w, w.st), err |-> "KNotFound", ks |-> Absent]
         ELSE [w |-> Tick(w, w.st), err |-> Nil, ks |-> w.st[Obj(ns, name)]]

\* Secrets(ns).Create
kCreate(w, ns, name, ks) ==
    IF Rejected(w) THEN [w |-> Tick(w, w.st), err |-> "ETransport"]
    ELSE IF w.st[Obj(ns, name)].exists
         THEN [w |-> Tick(w, w.st), err |-> "KAlreadyExists"]
         ELSE [w |-> Tick(w, [w.st EXCEPT ![Obj(ns, name)] = ks]), err |-> Nil]

\* Secrets(ns).Update
kUpdate(w, ns, name, ks) ==
    IF Rejected(w) THEN [w |-> Tick(w, w.st), err |-> "ETransport"]
    ELSE IF ~w.st[Obj(ns, name)].exists
         THEN [w |-> Tick(w, w.st), err |-> "KNotFound"]
         ELSE [w |-> Tick(w, [w.st EXCEPT ![Obj(ns, name)] = ks]), err |-> Nil]

\* Secrets(ns).Delete
kDelete(w, ns, name) ==
    IF Rejected(w) THEN [w |-> Tick(w, w.st), err |-> "ETransport"]
    ELSE IF ~w.st[Obj(ns, name)].exists
         THEN [w |-> Tick(w, w.st), err |-> "KNotFound"]
         ELSE [w |-> Tick(w, [w.st EXCEPT ![Obj(ns, name)] = Absent]), err |-> Nil]

\* apierr.IsNotFound
IsNotFound(err) == err = "KNotFound"

(***************************************************************************)
(* The File handle (the secfs File type) and the backend.                  *)
(*                                                                         *)
(* Bind(S) is the one element of a singleton: { e(r) : r \in { call } }    *)
(* names the result of a call r and evaluates the call once.               *)
(***************************************************************************)
Bind(S) == CHOOSE x \in S : TRUE

NoFile ==
    [name |-> EmptyStr, spath |-> NoPath, key |-> EmptyStr, value |-> << >>,
     data |-> EmptyData, readonly |-> TRUE, closed |-> FALSE, delete |-> FALSE, pos |-> 0]

\* newFile: [err, f]; a new File is read-only, at position 0, with an empty map
newFile(name) ==
    Bind({ IF r.err # Nil THEN [err |-> r.err, f |-> NoFile]
           ELSE [err |-> Nil,
                 f |-> [name |-> name, spath |-> r.p, key |-> r.p.key, value |-> << >>,
                        data |-> EmptyData, readonly |-> TRUE, closed |-> FALSE,
                        delete |-> FALSE, pos |-> 0]]
           : r \in { newSecretPath(name) } })

\* File.IsDir
IsDir(f) == f.spath.isDir

\* backend.checkAnnotation with ignoreAnnotation set
checkAnnotationIgnored(ks) == TRUE

\* backend.checkAnnotation, ignoreAnnotation not set
checkAnnotation(ks) == ks.managed

\* backend.get: [w, err, ks]
get(w, ns, secret) ==
    Bind({ IF r.err # Nil THEN r
           ELSE IF ~checkAnnotation(r.ks)
                THEN [w |-> r.w, err |-> "ErrNotManaged", ks |-> Absent]
                ELSE r
           : r \in { kGet(w, ns, internalName(secret)) } })

\* backend.Get: [w, err, f]; loads the data map of the secret into the File
backendGet(w, f) ==
    Bind({ IF IsNotFound(r.err) THEN [w |-> r.w, err |-> "ENOENT", f |-> f]
           ELSE IF r.err # Nil THEN [w |-> r.w, err |-> r.err, f |-> f]
           ELSE [w |-> r.w, err |-> Nil, f |-> [f EXCEPT !.data = r.ks.data]]
           : r \in { get(w, f.spath.namespace, f.spath.secret) } })

\* a backend.Create that forgets the annotation
backendCreateBare(w, f) ==
    kCreate(w, f.spath.namespace, internalName(f.spath.secret), Secret(FALSE, f.data))

\* backend.Create: [w, err]; the new secret carries the annotation and the File's map
backendCreate(w, f) ==
    kCreate(w, f.spath.namespace, internalName(f.spath.secret), Secret(TRUE, f.data))

\* the map backend.Update sends: the secret's current map with the File's key
\* deleted or set to the File's value
UpdatedData(data, f) ==
    IF f.delete THEN DelKey(data, f.key) ELSE SetKey(data, f.key, f.value)

\* a backend.Update that refuses a File whose key is no longer stored as the
\* File has loaded it
backendUpdateChecked(w, f) ==
    Bind({ IF r.err # Nil THEN [w |-> r.w, err |-> r.err]
           ELSE IF /\ f.key \in DOMAIN r.ks.data /\ f.key \in DOMAIN f.data
                   /\ r.ks.data[f.key] # f.data[f.key]
                THEN [w |-> r.w, err |-> "Conflict"]
                ELSE kUpdate(r.w, f.spath.namespace, internalName(f.spath.secret),
                             [r.ks EXCEPT !.data = UpdatedData(r.ks.data, f)])
           : r \in { get(w, f.spath.namespace, f.spath.secret) } })

\* a backend.Update that sends the map the File has loaded, with the File's
\* key set to the File's value
backendUpdateStale(w, f) ==
    Bind({ IF r.err # Nil THEN [w |-> r.w, err |-> r.err]
           ELSE kUpdate(r.w, f.spath.namespace, internalName(f.spath.secret),
                        [r.ks EXCEPT !.data = UpdatedData(f.data, f)])
           : r \in { get(w, f.spath.namespace, f.spath.secret) } })

\* backend.Update: [w, err]
backendUpdate(w, f) ==
    Bind({ IF r.err # Nil THEN [w |-> r.w, err |-> r.err]
           ELSE kUpdate(r.w, f.spath.namespace, internalName(f.spath.secret),
                        [r.ks EXCEPT !.data = UpdatedData(r.ks.data, f)])
           : r \in { get(w, f.spath.namespace, f.spath.secret) } })

\* backend.Delete: [w, err]; a secret that is not found is no error
backendDelete(w, f) ==
    Bind({ IF IsNotFound(r.err) THEN [w |-> r.w, err |-> Nil]
           ELSE IF r.err # Nil THEN [w |-> r.w, err |-> r.err]
           ELSE kDelete(r.w, f.spath.namespace, internalName(f.spath.secret))
           : r \in { get(w, f.spath.namespace, f.spath.secret) } })

\* a backend.Rename that creates the new secret and leaves the old one
CreateKeepingOld(w, o, n, ks) ==
    kCreate(w, n.namespace, internalName(n.secret), ks)

\* an end of backend.Rename that deletes the old secret first and then
\* creates the new one
DeleteThenCreate(w, o, n, ks) ==
    Bind({ IF d.err # Nil THEN d
           ELSE kCreate(d.w, n.namespace, internalName(n.secret), ks)
           : d \in { kDelete(w, o.namespace, internalName(o.secret)) } })

\* the end of backend.Rename: create the secret s under the new name, then
\* delete the old one
CreateThenDelete(w, o, n, ks) ==
    Bind({ IF c.err # Nil THEN c
           ELSE kDelete(c.w, o.namespace, internalName(o.secret))
           : c \in { kCreate(w, n.namespace, internalName(n.secret), ks) } })

\* backend.Rename: [w, err]; the old secret must exist and the new one must not
backendRename(w, o, n) ==
    Bind({ IF IsNotFound(s.err) THEN [w |-> s.w, err |-> "ENOENT"]
           ELSE IF s.err # Nil THEN [w |-> s.w, err |-> s.err]
           ELSE Bind({ IF t.err = Nil THEN [w |-> t.w, err |-> "EEXIST"]
                       ELSE IF ~IsNotFound(t.err) THEN [w |-> t.w, err |-> t.err]
                       ELSE CreateThenDelete(t.w, o, n, s.ks)
                       : t \in { get(s.w, n.namespace, n.secret) } })
           : s \in { get(w, o.namespace, o.secret) } })

\* a validateRO that does not look at closed
validateROAnyState(f) ==
    IF f.spath.isDir THEN "EISDIR" ELSE Nil

\* a validateRO that does not look at the kind of the path
validateROAnyKind(f) ==
    IF f.closed THEN "ErrFileClosed" ELSE Nil

\* a validateRO that looks at the kind of the path before it looks at closed
validateRODirFirst(f) ==
    IF f.spath.isDir THEN "EISDIR"
    ELSE IF f.closed THEN "ErrFileClosed"
    ELSE Nil

\* File.validateRO
validateRO(f) ==
    IF f.closed THEN "ErrFileClosed"
    ELSE IF f.spath.isDir THEN "EISDIR"
    ELSE Nil

\* a validateRW that does not look at readonly
validateRWAnyMode(f) == validateRO(f)

\* File.validateRW
validateRW(f) ==
    IF validateRO(f) # Nil THEN validateRO(f)
    ELSE IF f.readonly THEN "EBADF"
    ELSE Nil

\* an Open that does not look for the key in the map
OpenLoadedAnyKey(g) ==
    IF g.err # Nil THEN [w |-> g.w, err |-> wrapPathError(g.err), f |-> NoFile]
    ELSE IF IsDir(g.f) THEN g
    ELSE [w |-> g.w, err |-> Nil,
          f |-> [g.f EXCEPT !.value = IF g.f.key \in DOMAIN g.f.data
                                      THEN g.f.data[g.f.key] ELSE << >>]]

\* the end of Open: a secret is returned as it is, a file needs its key in the map
OpenLoaded(g) ==
    IF g.err # Nil THEN [w |-> g.w, err |-> wrapPathError(g.err), f |-> NoFile]
    ELSE IF IsDir(g.f) THEN g
    ELSE IF g.f.key \notin DOMAIN g.f.data
         THEN [w |-> g.w, err |-> wrapPathError("ENOENT"), f |-> NoFile]
         ELSE [w |-> g.w, err |-> Nil, f |-> [g.f EXCEPT !.value = g.f.data[g.f.key]]]

\* Open: [w, err, f]; a read-only File of a secret, or of a key the secret holds
Open(w, name) ==
    Bind({ IF n.err # Nil THEN [w |-> w, err |-> wrapPathError(n.err), f |-> NoFile]
           ELSE OpenLoaded(backendGet(w, [n.f EXCEPT !.readonly = TRUE]))
           : n \in { newFile(name) } })

\* a FileCreate that sends nothing to the secret before the File is synced
CreateLoadedLazy(g) ==
    IF g.err # Nil THEN [w |-> g.w, err |-> wrapPathError("ENOENT"), f |-> NoFile]
    ELSE [w |-> g.w, err |-> Nil,
          f |-> [g.f EXCEPT !.data = SetKey(g.f.data, g.f.key, << >>)]]

\* a FileCreate that refuses a key the secret holds
CreateLoadedStrict(g) ==
    IF g.err # Nil THEN [w |-> g.w, err |-> wrapPathError("ENOENT"), f |-> NoFile]
    ELSE IF g.f.key \in DOMAIN g.f.data
    THEN [w |-> g.w, err |-> wrapPathError("EEXIST"), f |-> NoFile]
    ELSE Bind({ Bind({ IF u.err # Nil
                       THEN [w |-> u.w, err |-> wrapPathError(u.err), f |-> NoFile]
                       ELSE [w |-> u.w, err |-> Nil, f |-> f1]
                       : u \in { backendUpdate(g.w, f1) } })
                : f1 \in { [g.f EXCEPT !.data = SetKey(g.f.data, g.f.key, << >>)] } })

\* the end of FileCreate: the key is set to an empty value in the File's map
\* and the File is sent to the secret
CreateLoaded(g) ==
    IF g.err # Nil THEN [w |-> g.w, err |-> wrapPathError("ENOENT"), f |-> NoFile]
    ELSE Bind({ Bind({ IF u.err # Nil
                       THEN [w |-> u.w, err |-> wrapPathError(u.err), f |-> NoFile]
                       ELSE [w |-> u.w, err |-> Nil, f |-> f1]
                       : u \in { backendUpdate(g.w, f1) } })
                : f1 \in { [g.f EXCEPT !.data = SetKey(g.f.data, g.f.key, << >>)] } })

\* FileCreate: [w, err, f]; a writable File of a key, stored empty in its secret
FileCreate(w, name) ==
    Bind({ IF n.err # Nil THEN [w |-> w, err |-> wrapPathError(n.err), f |-> NoFile]
           ELSE IF IsDir(n.f) THEN [w |-> w, err |-> wrapPathError("EISDIR"), f |-> NoFile]
           ELSE CreateLoaded(backendGet(w, [n.f EXCEPT !.readonly = FALSE]))
           : n \in { newFile(name) } })

\* File.Sync: [w, err]; a read-only File sends nothing
Sync(w, f) ==
    IF validateRO(f) # Nil THEN [w |-> w, err |-> validateRO(f)]
    ELSE IF f.readonly THEN [w |-> w, err |-> Nil]
    ELSE backendUpdate(w, f)

\* a Close that does not sync
CloseNoSync(w, f) ==
    IF f.closed THEN [w |-> w, err |-> "ErrFileClosed", f |-> f]
    ELSE [w |-> w, err |-> Nil, f |-> [f EXCEPT !.closed = TRUE]]

\* File.Close: [w, err, f]; a file is synced, then the File is closed
Close(w, f) ==
    IF f.closed THEN [w |-> w, err |-> "ErrFileClosed", f |-> f]
    ELSE Bind({ IF s.err # Nil THEN [w |-> s.w, err |-> s.err, f |-> f]
                ELSE [w |-> s.w, err |-> Nil, f |-> [f EXCEPT !.closed = TRUE]]
                : s \in { IF ~f.spath.isDir THEN Sync(w, f) ELSE [w |-> w, err |-> Nil] } })

Max(a, b) == IF a > b THEN a ELSE b

Min(a, b) == IF a < b THEN a ELSE b

\* a WriteAt that puts p behind the value when off lies behind it, with no
\* bytes in between
WrittenNoGap(value, p, off) ==
    IF off > Len(value) THEN value \o p
    ELSE [i \in 1..Max(Len(value), off + Len(p)) |->
             IF i > off /\ i <= off + Len(p) THEN p[i - off] ELSE value[i]]

\* the value after WriteAt: grown to off + len(p) with zero bytes (make),
\* then p copied to off
Written(value, p, off) ==
    [i \in 1..Max(Len(value), off + Len(p)) |->
        IF i > off /\ i <= off + Len(p) THEN p[i - off]
        ELSE IF i <= Len(value) THEN value[i]
        ELSE 0]

\* File.WriteAt: [err, n, f]
WriteAt(f, p, off) ==
    IF validateRW(f) # Nil THEN [err |-> validateRW(f), n |-> 0, f |-> f]
    ELSE [err |-> Nil, n |-> Len(p), f |-> [f EXCEPT !.value = Written(f.value, p, off)]]

\* a Write that leaves the position where it was
WriteInPlace(f, p) ==
    Bind({ IF r.err # Nil THEN [err |-> r.err, n |-> 0, f |-> r.f]
           ELSE [err |-> Nil, n |-> r.n, f |-> r.f]
           : r \in { WriteAt(f, p, f.pos) } })

\* File.Write: [err, n, f]; WriteAt the position, which then advances
Write(f, p) ==
    Bind({ IF r.err # Nil THEN [err |-> r.err, n |-> 0, f |-> r.f]
           ELSE [err |-> Nil, n |-> r.n, f |-> [r.f EXCEPT !.pos = f.pos + r.n]]
           : r \in { WriteAt(f, p, f.pos) } })

\* a Read that gives io.EOF whenever the buffer is not filled
ReadShortEOF(f, len) ==
    IF validateRO(f) # Nil THEN [err |-> validateRO(f), n |-> 0, buf |-> << >>, f |-> f]
    ELSE Bind({ [err |-> IF n < len \/ Len(f.value) = 0 THEN "EOF" ELSE Nil, n |-> n,
                 buf |-> SubSeq(f.value, f.pos + 1, f.pos + n),
                 f |-> [f EXCEPT !.pos = f.pos + n]]
                : n \in { Min(len, Max(0, Len(f.value) - f.pos)) } })

\* File.Read: [err, n, buf, f]; the bytes from the position on, as many as fit
\* a buffer of length len; io.EOF when none is left
Read(f, len) ==
    IF validateRO(f) # Nil THEN [err |-> validateRO(f), n |-> 0, buf |-> << >>, f |-> f]
    ELSE IF f.pos >= Len(f.value) THEN [err |-> "EOF", n |-> 0, buf |-> << >>, f |-> f]
    ELSE Bind({ [err |-> Nil, n |-> n, buf |-> SubSeq(f.value, f.pos + 1, f.pos + n),
                 f |-> [f EXCEPT !.pos = f.pos + n]]
                : n \in { Min(len, Len(f.value) - f.pos) } })

\* File.ReadAt: [err, n, buf, f]; bytes.Reader.ReadAt: the bytes from off on,
\* as many as fit a buffer of length len; io.EOF when the buffer is not filled
ReadAt(f, len, off) ==
    IF validateRO(f) # Nil THEN [err |-> validateRO(f), n |-> 0, buf |-> << >>, f |-> f]
    ELSE IF off < 0 THEN [err |-> "ErrNegativeOffset", n |-> 0, buf |-> << >>, f |-> f]
    ELSE IF off >= Len(f.value) THEN [err |-> "EOF", n |-> 0, buf |-> << >>, f |-> f]
    ELSE Bind({ [err |-> IF n < len THEN "EOF" ELSE Nil, n |-> n,
                 buf |-> SubSeq(f.value, off + 1, off + n), f |-> f]
                : n \in { Min(len, Len(f.value) - off) } })

\* io.SeekStart, io.SeekCurrent, io.SeekEnd
SeekStart == "SeekStart"

SeekCurrent == "SeekCurrent"

SeekEnd == "SeekEnd"

\* a Seek that stops at the ends of the value
ReaderSeekWithin(pos, size, offset, whence) ==
    IF whence \notin { SeekStart, SeekCurrent, SeekEnd } THEN [err |-> "ErrWhence", abs |-> 0]
    ELSE Bind({ [err |-> Nil, abs |-> Max(0, Min(size, abs))]
                : abs \in { IF whence = SeekStart THEN offset
                            ELSE IF whence = SeekCurrent THEN pos + offset
                            ELSE size + offset } })

\* bytes.Reader.Seek from position pos of a value of length size: [err, abs]
ReaderSeek(pos, size, offset, whence) ==
    IF whence \notin { SeekStart, SeekCurrent, SeekEnd } THEN [err |-> "ErrWhence", abs |-> 0]
    ELSE Bind({ IF abs < 0 THEN [err |-> "ErrNegativePosition", abs |-> 0]
                ELSE [err |-> Nil, abs |-> abs]
                : abs \in { IF whence = SeekStart THEN offset
                            ELSE IF whence = SeekCurrent THEN pos + offset
                            ELSE size + offset } })

\* File.Seek: [err, n, f]; the new position, which may lie behind the end
Seek(f, offset, whence) ==
    IF validateRO(f) # Nil THEN [err |-> validateRO(f), n |-> 0, f |-> f]
    ELSE Bind({ IF r.err # Nil THEN [err |-> r.err, n |-> 0, f |-> f]
                ELSE [err |-> Nil, n |-> r.abs, f |-> [f EXCEPT !.pos = r.abs]]
                : r \in { ReaderSeek(f.pos, Len(f.value), offset, whence) } })

\* File.WriteString: [err, n, f]; WriteAt the position, which then advances
WriteString(f, st) ==
    Bind({ IF r.err # Nil THEN [err |-> r.err, n |-> 0, f |-> r.f]
           ELSE [err |-> Nil, n |-> r.n, f |-> [r.f EXCEPT !.pos = f.pos + r.n]]
           : r \in { WriteAt(f, st, f.pos) } })

\* a Truncate that also extends a shorter value to size with zero bytes
TruncateExtends(f, size) ==
    IF validateRW(f) # Nil THEN [err |-> wrapPathError(validateRW(f)), f |-> f]
    ELSE [err |-> Nil,
          f |-> [f EXCEPT !.value = [i \in 1..size |->
                                        IF i <= Len(f.value) THEN f.value[i] ELSE 0]]]

\* File.Truncate: [err, f]; a value longer than size is cut to size, a
\* shorter one is left as it is; the position stays
Truncate(f, size) ==
    IF validateRW(f) # Nil THEN [err |-> wrapPathError(validateRW(f)), f |-> f]
    ELSE IF Len(f.value) <= size THEN [err |-> Nil, f |-> f]
    ELSE [err |-> Nil, f |-> [f EXCEPT !.value = SubSeq(f.value, 1, size)]]

\* the ways a loop over n keys of a map can go: the keys in any order,
\* each of them once
Ranges(keys, n) ==
    { e \in [1..n -> keys] : \A i, j \in 1..n : e[i] = e[j] => i = j }

\* a Readdir that gives every key, whatever the count
ReaddirAll(f, count) ==
    IF ~f.spath.isDir THEN { [err |-> "ENOTDIR", entries |-> << >>] }
    ELSE { [err |-> Nil, entries |-> e]
           : e \in Ranges(DOMAIN f.data, Cardinality(DOMAIN f.data)) }

\* File.Readdir: the results the call can give, each [err, entries]; the
\* entries are the keys the loop over the File's map comes by, in the order
\* of the map's iteration, which is any; the loop ends after count keys
\* when count > 0
Readdir(f, count) ==
    IF ~f.spath.isDir THEN { [err |-> "ENOTDIR", entries |-> << >>] }
    ELSE { [err |-> Nil, entries |-> e]
           : e \in Ranges(DOMAIN f.data,
                           IF count > 0 /\ count < Cardinality(DOMAIN f.data)
                           THEN count ELSE Cardinality(DOMAIN f.data)) }

\* filepath.Split: what follows the last slash of name
Base(name) ==
    IF \E i \in 1..Len(name) : name[i] = Slash
    THEN SubSeq(name, 1 + CHOOSE i \in 1..Len(name) :
                            /\ name[i] = Slash
                            /\ \A j \in (i + 1)..Len(name) : name[j] # Slash,
                Len(name))
    ELSE name

\* File.Readdirnames: the results the call can give, each [err, names]; the
\* name of an entry is what filepath.Split leaves of the Name of its path
Readdirnames(f, n) ==
    { [err |-> r.err,
       names |-> [i \in 1..Len(r.entries) |->
                     Base(PathName([namespace |-> f.spath.namespace,
                                    secret |-> f.spath.secret,
                                    key |-> r.entries[i], isDir |-> FALSE]))]]
      : r \in Readdir(f, n) }

\* File.Size: the number of keys of a secret, the number of bytes of a file
Size(f) == IF f.spath.isDir THEN Cardinality(DOMAIN f.data) ELSE Len(f.value)

\* an isEmptyDir that does not count the keys
isEmptyDirAny(f) == f.spath.isDir

\* File.isEmptyDir
isEmptyDir(f) == f.spath.isDir /\ DOMAIN f.data = {}

(***************************************************************************)
(* The facade: the secfs methods.  Each takes the world and gives the      *)
(* world it leaves and the error it returns.                               *)
(***************************************************************************)
\* secfs.Create: [w, err, f]
secfsCreate(w, name) == FileCreate(w, name)

\* secfs.Stat: [w, err, f]
Stat(w, name) == Open(w, name)

\* the end of secfs.Mkdir: an existing secret is an error, a missing one is created
MkdirOpened(o, f) ==
    IF o.err = Nil THEN [w |-> o.w, err |-> wrapPathError("EEXIST")]
    ELSE IF ~IsNotExist(o.err) THEN [w |-> o.w, err |-> wrapPathError(o.err)]
    ELSE Bind({ [w |-> c.w, err |-> wrapPathError(c.err)]
                : c \in { backendCreate(o.w, f) } })

\* secfs.Mkdir: [w, err]
secfsMkdir(w, name) ==
    Bind({ IF s.err # Nil THEN [w |-> w, err |-> wrapPathError(s.err)]
           ELSE IF ~IsDir(s.f) THEN [w |-> w, err |-> wrapPathError("ENOTDIR")]
           ELSE MkdirOpened(Open(w, name), s.f)
           : s \in { newFile(name) } })

\* secfs.MkdirAll
secfsMkdirAll(w, name) == secfsMkdir(w, name)

\* a removal of a key that does not mark the File delete
DeleteKeyUnmarked(w, f) ==
    Bind({ [w |-> u.w, err |-> wrapPathError(u.err)] : u \in { backendUpdate(w, f) } })

\* the flag of OpenFile is the set of the os.O_ bits it has; os.O_RDONLY is
\* no bit
O_RDONLY == {}

\* an end of OpenFile that does not seek for O_APPEND
OpenFileFlagsNoSeek(w, f, flag) ==
    Bind({ IF t.err # Nil THEN [w |-> w, err |-> t.err, f |-> NoFile]
           ELSE [w |-> w, err |-> Nil, f |-> t.f]
           : t \in { IF "O_TRUNC" \in flag /\ flag \cap { "O_RDWR", "O_WRONLY" } # {}
                     THEN Truncate(f, 0)
                     ELSE [err |-> Nil, f |-> f] } })

\* an end of OpenFile that does not truncate for O_TRUNC
OpenFileFlagsNoTruncate(w, f, flag) ==
    Bind({ IF a.err # Nil THEN [w |-> w, err |-> a.err, f |-> NoFile]
           ELSE [w |-> w, err |-> Nil, f |-> a.f]
           : a \in { IF "O_APPEND" \in flag THEN Seek(f, 0, SeekEnd)
                     ELSE [err |-> Nil, n |-> 0, f |-> f] } })

\* an end of OpenFile that sends the truncated File to its secret at once
OpenFileFlagsStored(w, f, flag) ==
    Bind({ IF a.err # Nil THEN [w |-> w, err |-> a.err, f |-> NoFile]
           ELSE IF "O_TRUNC" \in flag /\ flag \cap { "O_RDWR", "O_WRONLY" } # {}
           THEN Bind({ IF t.err # Nil THEN [w |-> w, err |-> t.err, f |-> NoFile]
                       ELSE [w |-> Sync(w, t.f).w, err |-> Nil, f |-> t.f]
                       : t \in { Truncate(a.f, 0) } })
           ELSE [w |-> w, err |-> Nil, f |-> a.f]
           : a \in { IF "O_APPEND" \in flag THEN Seek(f, 0, SeekEnd)
                     ELSE [err |-> Nil, n |-> 0, f |-> f] } })

\* the end of secfs.OpenFile: append seeks to the end, truncate with a write
\* mode cuts the value to nothing
OpenFileFlags(w, f, flag) ==
    Bind({ IF a.err # Nil THEN [w |-> w, err |-> a.err, f |-> NoFile]
           ELSE Bind({ IF t.err # Nil THEN [w |-> w, err |-> t.err, f |-> NoFile]
                       ELSE [w |-> w, err |-> Nil, f |-> t.f]
                       : t \in { IF "O_TRUNC" \in flag
                                    /\ flag \cap { "O_RDWR", "O_WRONLY" } # {}
                                 THEN Truncate(a.f, 0)
                                 ELSE [err |-> Nil, f |-> a.f] } })
           : a \in { IF "O_APPEND" \in flag THEN Seek(f, 0, SeekEnd)
                     ELSE [err |-> Nil, n |-> 0, f |-> f] } })

\* secfs.OpenFile with the File c of Open or Create: an error is returned,
\* a File is made writable
OpenFileMode(c, flag) ==
    IF c.err # Nil THEN [w |-> c.w, err |-> c.err, f |-> NoFile]
    ELSE OpenFileFlags(c.w, [c.f EXCEPT !.readonly = FALSE], flag)

\* secfs.OpenFile after Open (o); s is the File of newFile.  os.IsNotExist
\* holds of the error of Open, a PathError of fs.ErrNotExist
OpenFileOpened(o, s, name, flag) ==
    IF o.err = Nil /\ (IsDir(s) \/ flag = O_RDONLY) THEN o
    ELSE IF o.err = Nil /\ "O_EXCL" \in flag /\ "O_CREATE" \in flag
    THEN [w |-> o.w, err |-> wrapPathError("EEXIST"), f |-> NoFile]
    ELSE IF IsNotExist(o.err) /\ "O_CREATE" \in flag
    THEN OpenFileMode(secfsCreate(o.w, name), flag)
    ELSE OpenFileMode(o, flag)

\* secfs.OpenFile: [w, err, f]
secfsOpenFile(w, name, flag) ==
    Bind({ IF s.err # Nil THEN [w |-> w, err |-> wrapPathError(s.err), f |-> NoFile]
           ELSE OpenFileOpened(Open(w, name), s.f, name, flag)
           : s \in { newFile(name) } })

\* the removal of a key: the File is marked delete and sent to the secret
DeleteKey(w, f) ==
    Bind({ [w |-> u.w, err |-> wrapPathError(u.err)]
           : u \in { backendUpdate(w, [f EXCEPT !.delete = TRUE]) } })

\* the removal of a secret
DeleteSecret(w, f) ==
    Bind({ [w |-> d.w, err |-> wrapPathError(d.err)] : d \in { backendDelete(w, f) } })

\* secfs.Remove: [w, err]; an empty secret is deleted, a key is deleted from its secret
secfsRemove(w, name) ==
    Bind({ IF si.err # Nil THEN [w |-> si.w, err |-> wrapPathError(si.err)]
           ELSE IF IsDir(si.f)
                THEN IF ~isEmptyDir(si.f)
                     THEN [w |-> si.w, err |-> wrapPathError("ENOTEMPTY")]
                     ELSE DeleteSecret(si.w, si.f)
                ELSE DeleteKey(si.w, si.f)
           : si \in { Stat(w, name) } })

\* a RemoveAll that reports a path that does not exist
RemoveAllStrict(w, name) ==
    Bind({ IF si.err # Nil THEN [w |-> si.w, err |-> wrapPathError(si.err)]
           ELSE IF IsDir(si.f) THEN DeleteSecret(si.w, si.f)
           ELSE DeleteKey(si.w, si.f)
           : si \in { Stat(w, name) } })

\* secfs.RemoveAll: [w, err]; a path that does not exist is no error
secfsRemoveAll(w, name) ==
    Bind({ IF IsNotExist(si.err) THEN [w |-> si.w, err |-> Nil]
           ELSE IF si.err # Nil THEN [w |-> si.w, err |-> wrapPathError(si.err)]
           ELSE IF IsDir(si.f) THEN DeleteSecret(si.w, si.f)
           ELSE DeleteKey(si.w, si.f)
           : si \in { Stat(w, name) } })

\* a moved file that always keeps its key
RenameKeyOld(oldSp, newSp) == oldSp.key

\* the key a moved file gets: its own under a secret, the new one otherwise
RenameKey(oldSp, newSp) == IF ~newSp.isDir THEN newSp.key ELSE oldSp.key

\* a move of a key that hides the error of the deletion of the old key
MoveValueSwallow(ofi, nfi) ==
    IF nfi.err # Nil THEN [w |-> nfi.w, err |-> wrapLinkError(nfi.err)]
    ELSE Bind({ IF c.err # Nil THEN [w |-> c.w, err |-> wrapLinkError(c.err)]
                ELSE Bind({ [w |-> u.w, err |-> Nil]
                            : u \in { backendUpdate(c.w, [ofi.f EXCEPT !.delete = TRUE]) } })
                : c \in { Close(nfi.w, [nfi.f EXCEPT !.value = ofi.f.value]) } })

\* the end of the move of a key: the new File gets the old value and is
\* closed, then the old key is deleted from its secret
MoveValue(ofi, nfi) ==
    IF nfi.err # Nil THEN [w |-> nfi.w, err |-> wrapLinkError(nfi.err)]
    ELSE Bind({ IF c.err # Nil THEN [w |-> c.w, err |-> wrapLinkError(c.err)]
                ELSE Bind({ [w |-> u.w, err |-> wrapLinkError(u.err)]
                            : u \in { backendUpdate(c.w, [ofi.f EXCEPT !.delete = TRUE]) } })
                : c \in { Close(nfi.w, [nfi.f EXCEPT !.value = ofi.f.value]) } })

\* the move of a key in secfs.Rename: open the old file, create the new one
RenameFile(w, oldSp, newSp, o) ==
    Bind({ IF ofi.err # Nil THEN [w |-> ofi.w, err |-> wrapLinkError(ofi.err)]
           ELSE MoveValue(ofi, FileCreate(ofi.w, Join(<< newSp.namespace, newSp.secret,
                                                         RenameKey(oldSp, newSp) >>)))
           : ofi \in { Open(w, o) } })

\* a Rename that does not compare the namespaces
RenameParsedAnyNamespace(w, oldSp, newSp, o) ==
    IF oldSp.isDir
    THEN IF newSp.isDir
         THEN Bind({ [w |-> r.w, err |-> wrapLinkError(r.err)]
                     : r \in { backendRename(w, oldSp, newSp) } })
         ELSE [w |-> w, err |-> wrapLinkError("ErrMoveConvert")]
    ELSE RenameFile(w, oldSp, newSp, o)

\* a Rename that moves a secret onto the secret of a file path
RenameParsedConvert(w, oldSp, newSp, o) ==
    IF oldSp.namespace # newSp.namespace
    THEN [w |-> w, err |-> wrapLinkError("ErrMoveCrossNamespace")]
    ELSE IF oldSp.isDir
         THEN Bind({ [w |-> r.w, err |-> wrapLinkError(r.err)]
                     : r \in { backendRename(w, oldSp, newSp) } })
         ELSE RenameFile(w, oldSp, newSp, o)

\* the end of secfs.Rename, both names parsed
RenameParsed(w, oldSp, newSp, o) ==
    IF oldSp.namespace # newSp.namespace
    THEN [w |-> w, err |-> wrapLinkError("ErrMoveCrossNamespace")]
    ELSE IF oldSp.isDir
         THEN IF newSp.isDir
              THEN Bind({ [w |-> r.w, err |-> wrapLinkError(r.err)]
                          : r \in { backendRename(w, oldSp, newSp) } })
              ELSE [w |-> w, err |-> wrapLinkError("ErrMoveConvert")]
         ELSE RenameFile(w, oldSp, newSp, o)

\* secfs.Rename: [w, err]
secfsRename(w, o, n) ==
    Bind({ IF sp[1].err # Nil THEN [w |-> w, err |-> wrapLinkError(sp[1].err)]
           ELSE IF sp[2].err # Nil THEN [w |-> w, err |-> wrapLinkError(sp[2].err)]
           ELSE RenameParsed(w, sp[1].p, sp[2].p, o)
           : sp \in { << newSecretPath(o), newSecretPath(n) >> } })

(***************************************************************************)
(* The state machine.                                                      *)
(*   store    the secrets of the cluster                                   *)
(*   handles  the File each variable of the caller holds (none, or one)    *)
(*   last     the call the caller has made, what it returned and the       *)
(*            cluster it was made on; the caller is idle when              *)
(*            last.op = "none"                                             *)
(* Calls are synchronous: the caller makes a call, receives the result     *)
(* (Return), and only then makes the next one.                             *)
(***************************************************************************)
\* the variable of a caller that holds one File
Handles == { "f" }

\* the variables of a caller that holds two Files
BothHandles == { "f", "g" }

\* no variable holds a File
NoHandles == [h \in BothHandles |-> << >>]

\* the caller keeps no reference to the File a call returns
Dropped == "-"

\* the cluster with no secret
NoSecrets == [c \in StoreKeys |-> Absent]

NoCall ==
    [op |-> "none", name |-> EmptyStr, to |-> EmptyStr, h |-> Dropped,
     buf |-> << >>, n |-> 0, fault |-> 0, err |-> Nil, pre |-> NoSecrets,
     flag |-> {}, entries |-> << >>, path |-> NoPath, procs |-> << >>,
     len |-> 0, off |-> 0, whence |-> EmptyStr, count |-> 0]

\* the record of a call: its arguments, what it returned, and the cluster
\* as it was when the call was made (flag: of OpenFile; entries: of Readdir;
\* path: of newSecretPath; procs: the goroutines of concurrent calls; len: the
\* length of the buffer of Read and ReadAt; off: the offset of ReadAt, WriteAt
\* and Seek; whence: of Seek; count: of Readdir and Readdirnames)
Call(op, name, to, h, buf, n, fault, err) ==
    [op |-> op, name |-> name, to |-> to, h |-> h, buf |-> buf, n |-> n,
     fault |-> fault, err |-> err, pre |-> store, flag |-> {}, entries |-> << >>,
     path |-> NoPath, procs |-> << >>, len |-> 0, off |-> 0, whence |-> EmptyStr,
     count |-> 0]

Idle == last.op = "none"

\* the caller assigns the File a successful call returns to its variable h
Assign(h, err, f) ==
    IF h = Dropped \/ err # Nil THEN handles ELSE [handles EXCEPT ![h] = << f >>]

\* the data maps a secret of the cluster can hold when the filesystem is constructed
SeedData == UNION { [ks -> SeedValues] : ks \in SUBSET Keys }

\* a secret made by something else: without the annotation (NewFakeClientset)
ForeignSecret == Secret(FALSE, [k \in { <<"k1">> } |-> <<1>>])

SeedSecrets == { Absent, ForeignSecret } \cup { Secret(TRUE, d) : d \in SeedData }

\* New: the cluster holds any secrets, the caller holds no File
Init ==
    /\ store \in [StoreKeys -> SeedSecrets]
    /\ handles = NoHandles
    /\ last = NoCall

CallMkdir(name, fault) ==
    /\ Idle
    /\ \E r \in { secfsMkdir(World(store, fault), name) } :
          /\ store' = r.w.st
          /\ last' = Call("Mkdir", name, EmptyStr, Dropped, << >>, 0, fault, r.err)
    /\ UNCHANGED handles

CallMkdirAll(name, fault) ==
    /\ Idle
    /\ \E r \in { secfsMkdirAll(World(store, fault), name) } :
          /\ store' = r.w.st
          /\ last' = Call("MkdirAll", name, EmptyStr, Dropped, << >>, 0, fault, r.err)
    /\ UNCHANGED handles

CallCreate(name, h, fault) ==
    /\ Idle
    /\ \E r \in { secfsCreate(World(store, fault), name) } :
          /\ store' = r.w.st
          /\ handles' = Assign(h, r.err, r.f)
          /\ last' = Call("Create", name, EmptyStr, h, << >>, 0, fault, r.err)

CallOpen(name, h, fault) ==
    /\ Idle
    /\ \E r \in { Open(World(store, fault), name) } :
          /\ store' = r.w.st
          /\ handles' = Assign(h, r.err, r.f)
          /\ last' = Call("Open", name, EmptyStr, h, << >>, 0, fault, r.err)

CallRemove(name, fault) ==
    /\ Idle
    /\ \E r \in { secfsRemove(World(store, fault), name) } :
          /\ store' = r.w.st
          /\ last' = Call("Remove", name, EmptyStr, Dropped, << >>, 0, fault, r.err)
    /\ UNCHANGED handles

CallRemoveAll(name, fault) ==
    /\ Idle
    /\ \E r \in { secfsRemoveAll(World(store, fault), name) } :
          /\ store' = r.w.st
          /\ last' = Call("RemoveAll", name, EmptyStr, Dropped, << >>, 0, fault, r.err)
    /\ UNCHANGED handles

CallRename(o, n, fault) ==
    /\ Idle
    /\ \E r \in { secfsRename(World(store, fault), o, n) } :
          /\ store' = r.w.st
          /\ last' = Call("Rename", o, n, Dropped, << >>, 0, fault, r.err)
    /\ UNCHANGED handles

\* the caller has the result and is ready for its next call
Return ==
    /\ ~Idle
    /\ last.op # "go"
    /\ last' = NoCall
    /\ UNCHANGED << store, handles >>

\* the facade over a cluster that answers every request
Next ==
    \/ \E name \in Names : CallMkdir(name, 0)
    \/ \E name \in Names : CallMkdirAll(name, 0)
    \/ \E name \in Names : CallCreate(name, Dropped, 0)
    \/ \E name \in Names : CallOpen(name, Dropped, 0)
    \/ \E name \in Names : CallRemove(name, 0)
    \/ \E name \in Names : CallRemoveAll(name, 0)
    \/ \E o \in Names, n \in Names : CallRename(o, n, 0)
    \/ Return

Spec == Init /\ [][Next]_vars

(***************************************************************************)
(* The facade over a cluster whose requests can fail: a call is made with  *)
(* a fault input i, and the i-th request it sends to the cluster fails     *)
(* (i = 0: none fails).  The secrets are those of namespace n1.            *)
(***************************************************************************)
Faults == 0..MaxFault

FaultNames == { name \in Names : Head(name) = "n1" }

InitFault ==
    /\ store \in { st \in [StoreKeys -> SeedSecrets] :
                      \A c \in StoreKeys : c[1] # <<"n1">> => st[c] = Absent }
    /\ handles = NoHandles
    /\ last = NoCall

NextFault ==
    \/ \E name \in FaultNames, i \in Faults : CallMkdir(name, i)
    \/ \E name \in FaultNames, i \in Faults : CallCreate(name, Dropped, i)
    \/ \E name \in FaultNames, i \in Faults : CallOpen(name, Dropped, i)
    \/ \E name \in FaultNames, i \in Faults : CallRemove(name, i)
    \/ \E name \in FaultNames, i \in Faults : CallRemoveAll(name, i)
    \/ \E o \in FaultNames, n \in FaultNames, i \in Faults : CallRename(o, n, i)
    \/ Return

SpecFault == InitFault /\ [][NextFault]_vars

(***************************************************************************)
(* The caller keeps the File a call returns in its variable f and reads,   *)
(* writes and closes it.  The paths are the secret n1/s1 and its key k1.   *)
(***************************************************************************)
FileSecret == << <<"n1">>, <<"s1">> >>

FileNames == { DirName(FileSecret), LeafName(FileSecret, <<"k1">>) }

\* the File the variable h holds
Held(h) == handles[h][1]

Holds(h) == handles[h] # << >>

CallWrite(h, p) ==
    /\ Idle
    /\ Holds(h)
    /\ Held(h).pos + Len(p) <= MaxLen
    /\ \E r \in { Write(Held(h), p) } :
          /\ handles' = [handles EXCEPT ![h] = << r.f >>]
          /\ last' = Call("Write", Held(h).name, EmptyStr, h, p, r.n, 0, r.err)
    /\ UNCHANGED store

CallRead(h, len) ==
    /\ Idle
    /\ Holds(h)
    /\ \E r \in { Read(Held(h), len) } :
          /\ handles' = [handles EXCEPT ![h] = << r.f >>]
          /\ last' = [Call("Read", Held(h).name, EmptyStr, h, r.buf, r.n, 0, r.err)
                         EXCEPT !.len = len]
    /\ UNCHANGED store

CallClose(h) ==
    /\ Idle
    /\ Holds(h)
    /\ \E r \in { Close(World(store, 0), Held(h)) } :
          /\ store' = r.w.st
          /\ handles' = [handles EXCEPT ![h] = << r.f >>]
          /\ last' = Call("Close", Held(h).name, EmptyStr, h, << >>, 0, 0, r.err)

\* the flags the caller opens files with
Flags ==
    { O_RDONLY, { "O_RDWR" }, { "O_WRONLY" }, { "O_APPEND" }, { "O_CREATE" },
      { "O_CREATE", "O_EXCL" }, { "O_CREATE", "O_RDWR" },
      { "O_TRUNC" }, { "O_TRUNC", "O_RDWR" }, { "O_TRUNC", "O_WRONLY" },
      { "O_APPEND", "O_WRONLY" } }

Whences == { SeekStart, SeekCurrent, SeekEnd, "SeekNowhere" }

CallOpenFile(name, flag, h) ==
    /\ Idle
    /\ \E r \in { secfsOpenFile(World(store, 0), name, flag) } :
          /\ store' = r.w.st
          /\ handles' = Assign(h, r.err, r.f)
          /\ last' = [Call("OpenFile", name, EmptyStr, h, << >>, 0, 0, r.err)
                         EXCEPT !.flag = flag]

CallReadAt(h, len, off) ==
    /\ Idle
    /\ Holds(h)
    /\ \E r \in { ReadAt(Held(h), len, off) } :
          /\ handles' = [handles EXCEPT ![h] = << r.f >>]
          /\ last' = [Call("ReadAt", Held(h).name, EmptyStr, h, r.buf, r.n, 0, r.err)
                         EXCEPT !.len = len, !.off = off]
    /\ UNCHANGED store

CallSeek(h, offset, whence) ==
    /\ Idle
    /\ Holds(h)
    /\ \E r \in { Seek(Held(h), offset, whence) } :
          /\ r.f.pos <= MaxLen
          /\ handles' = [handles EXCEPT ![h] = << r.f >>]
          /\ last' = [Call("Seek", Held(h).name, EmptyStr, h, << >>, r.n, 0, r.err)
                         EXCEPT !.off = offset, !.whence = whence]
    /\ UNCHANGED store

CallWriteAt(h, p, off) ==
    /\ Idle
    /\ Holds(h)
    /\ off + Len(p) <= MaxLen
    /\ \E r \in { WriteAt(Held(h), p, off) } :
          /\ handles' = [handles EXCEPT ![h] = << r.f >>]
          /\ last' = [Call("WriteAt", Held(h).name, EmptyStr, h, p, r.n, 0, r.err)
                         EXCEPT !.off = off]
    /\ UNCHANGED store

CallWriteString(h, st) ==
    /\ Idle
    /\ Holds(h)
    /\ Held(h).pos + Len(st) <= MaxLen
    /\ \E r \in { WriteString(Held(h), st) } :
          /\ handles' = [handles EXCEPT ![h] = << r.f >>]
          /\ last' = Call("WriteString", Held(h).name, EmptyStr, h, st, r.n, 0, r.err)
    /\ UNCHANGED store

CallTruncate(h, size) ==
    /\ Idle
    /\ Holds(h)
    /\ \E r \in { Truncate(Held(h), size) } :
          /\ handles' = [handles EXCEPT ![h] = << r.f >>]
          /\ last' = Call("Truncate", Held(h).name, EmptyStr, h, << >>, size, 0, r.err)
    /\ UNCHANGED store

CallSync(h) ==
    /\ Idle
    /\ Holds(h)
    /\ \E r \in { Sync(World(store, 0), Held(h)) } :
          /\ store' = r.w.st
          /\ last' = Call("Sync", Held(h).name, EmptyStr, h, << >>, 0, 0, r.err)
    /\ UNCHANGED handles

CallReaddir(h, count) ==
    /\ Idle
    /\ Holds(h)
    /\ \E r \in Readdir(Held(h), count) :
          last' = [Call("Readdir", Held(h).name, EmptyStr, h, << >>,
                        Len(r.entries), 0, r.err)
                      EXCEPT !.entries = r.entries, !.count = count]
    /\ UNCHANGED << store, handles >>

CallReaddirnames(h, n) ==
    /\ Idle
    /\ Holds(h)
    /\ \E r \in Readdirnames(Held(h), n) :
          last' = [Call("Readdirnames", Held(h).name, EmptyStr, h, << >>,
                        Len(r.names), 0, r.err)
                      EXCEPT !.entries = r.names, !.count = n]
    /\ UNCHANGED << store, handles >>

\* the secrets n1/s1 can be when the filesystem is constructed: of the seed
\* secrets, those whose key k2, if there is one, is not empty
FileSeeds ==
    { x \in SeedSecrets : <<"k2">> \in DOMAIN x.data => x.data[<<"k2">>] # << >> }

InitFile ==
    /\ store \in { st \in [StoreKeys -> SeedSecrets] :
                      /\ st[FileSecret] \in FileSeeds
                      /\ \A c \in StoreKeys : c # FileSecret => st[c] = Absent }
    /\ handles = NoHandles
    /\ last = NoCall

NextFile ==
    \/ \E name \in FileNames : CallMkdir(name, 0)
    \/ \E name \in FileNames, h \in Handles : CallCreate(name, h, 0)
    \/ \E name \in FileNames, h \in Handles : CallOpen(name, h, 0)
    \/ \E name \in FileNames, flag \in Flags, h \in Handles : CallOpenFile(name, flag, h)
    \/ \E h \in Handles, p \in Values : CallWrite(h, p)
    \/ \E h \in Handles, len \in 0..MaxLen : CallRead(h, len)
    \/ \E h \in Handles : CallClose(h)
    \/ Return

SpecFile == InitFile /\ [][NextFile]_vars

(***************************************************************************)
(* The File interface: a caller makes every call of afero.File on the      *)
(* Files of the secret n1/s1 and its key k1, open or closed, read-only or  *)
(* writable.                                                               *)
(***************************************************************************)
\* the counts of Readdir and Readdirnames: all, and up to the most keys
Counts == (0 - 1)..Cardinality(Keys)

\* the lengths, offsets and sizes of the calls: none and the longest
Ends == { 0, MaxLen }

\* the offsets of Seek: back, none, forth
Moves == { 0 - 1, 0, MaxLen }

NextStream ==
    \/ \E name \in FileNames : CallMkdir(name, 0)
    \/ \E name \in FileNames, h \in Handles : CallCreate(name, h, 0)
    \/ \E name \in FileNames, h \in Handles : CallOpen(name, h, 0)
    \/ \E name \in FileNames, flag \in Flags, h \in Handles : CallOpenFile(name, flag, h)
    \/ \E h \in Handles, p \in Values : CallWrite(h, p)
    \/ \E h \in Handles, len \in 0..MaxLen : CallRead(h, len)
    \/ \E h \in Handles : CallClose(h)
    \/ \E h \in Handles, len \in Ends, off \in Ends : CallReadAt(h, len, off)
    \/ \E h \in Handles, offset \in Moves, whence \in Whences : CallSeek(h, offset, whence)
    \/ \E h \in Handles, p \in Values, off \in Ends : CallWriteAt(h, p, off)
    \/ \E h \in Handles, st \in Values : CallWriteString(h, st)
    \/ \E h \in Handles, size \in Ends : CallTruncate(h, size)
    \/ \E h \in Handles : CallSync(h)
    \/ \E h \in Handles, count \in Counts : CallReaddir(h, count)
    \/ \E h \in Handles, n \in Counts : CallReaddirnames(h, n)
    \/ Return

SpecStream == InitFile /\ [][NextStream]_vars

(***************************************************************************)
(* The bytes of a File: the caller opens the key n1/s1/k1, read-only or    *)
(* for writing, and reads, writes, seeks and truncates with every length   *)
(* and offset up to MaxLen.  Nothing is sent to the cluster.               *)
(***************************************************************************)
BytesName == LeafName(FileSecret, <<"k1">>)

InitBytes ==
    /\ store \in { st \in [StoreKeys -> SeedSecrets] :
                      /\ \A c \in StoreKeys : c # FileSecret => st[c] = Absent
                      /\ DOMAIN st[FileSecret].data = { <<"k1">> }
                      /\ st[FileSecret].managed }
    /\ handles = NoHandles
    /\ last = NoCall

NextBytes ==
    \/ \E h \in Handles : CallOpen(BytesName, h, 0)
    \/ \E h \in Handles : CallOpenFile(BytesName, { "O_RDWR" }, h)
    \/ \E h \in Handles, len \in 0..MaxLen : CallRead(h, len)
    \/ \E h \in Handles, len \in 0..MaxLen, off \in 0..MaxLen : CallReadAt(h, len, off)
    \/ \E h \in Handles, offset \in (0 - 1)..MaxLen, whence \in Whences :
          CallSeek(h, offset, whence)
    \/ \E h \in Handles, p \in Values : CallWrite(h, p)
    \/ \E h \in Handles, p \in Values, off \in 0..MaxLen : CallWriteAt(h, p, off)
    \/ \E h \in Handles, st \in Values : CallWriteString(h, st)
    \/ \E h \in Handles, size \in 0..MaxLen : CallTruncate(h, size)
    \/ Return

SpecBytes == InitBytes /\ [][NextBytes]_vars

(***************************************************************************)
(* Two Files: the caller opens the keys k1 and k2 of the secret n1/s1 for  *)
(* writing, once with each of its two variables, writes to the Files,      *)
(* syncs and closes them in any order, and removes the keys.               *)
(***************************************************************************)
SharedNames == { LeafName(FileSecret, k) : k \in Keys }

\* what is written to the Files: zeros to the one, ones to the other
SharedWrites == [h \in BothHandles |-> IF h = "f" THEN << 0 >> ELSE << 1 >>]

\* the caller opens a key for writing with a variable that holds no File
OpenOnce(name, h) == ~Holds(h) /\ CallOpenFile(name, { "O_RDWR" }, h)

InitShared ==
    /\ store \in { st \in [StoreKeys -> SeedSecrets] :
                      /\ \A c \in StoreKeys : c # FileSecret => st[c] = Absent
                      /\ st[FileSecret].managed
                      /\ \A k \in DOMAIN st[FileSecret].data :
                            st[FileSecret].data[k] # << >> }
    /\ handles = NoHandles
    /\ last = NoCall

NextShared ==
    \/ \E name \in SharedNames, h \in BothHandles : OpenOnce(name, h)
    \/ \E h \in BothHandles : CallWrite(h, SharedWrites[h])
    \/ \E h \in BothHandles : CallSync(h)
    \/ \E h \in BothHandles : CallClose(h)
    \/ \E name \in SharedNames : CallRemove(name, 0)
    \/ Return

SpecShared == InitShared /\ [][NextShared]_vars

(***************************************************************************)
(* A shared cluster: the caller works on the secrets s1 and s2 of the      *)
(* namespace n1 and their key k1 and keeps one File, while another client  *)
(* of the cluster takes the annotation off a secret.                       *)
(***************************************************************************)
ForeignSecrets == { c \in StoreKeys : c[1] = <<"n1">> }

ForeignNames == { DirName(c) : c \in ForeignSecrets } \cup { LeafName(FileSecret, <<"k1">>) }

\* the flags the caller opens files with: to write, to create, to truncate
ForeignFlags == { { "O_RDWR" }, { "O_CREATE" }, { "O_TRUNC", "O_RDWR" } }

\* the bytes the caller writes
ForeignWrites == { << 0 >> }

\* another client updates the secret c without the annotation of secfs
Disown(c) ==
    /\ Idle
    /\ store[c].exists /\ store[c].managed
    /\ store' = [store EXCEPT ![c].managed = FALSE]
    /\ UNCHANGED << handles, last >>

InitForeign ==
    /\ store \in { st \in [StoreKeys -> SeedSecrets] :
                      \A c \in StoreKeys :
                         /\ c \notin ForeignSecrets => st[c] = Absent
                         /\ DOMAIN st[c].data \subseteq { <<"k1">> } }
    /\ handles = NoHandles
    /\ last = NoCall

NextForeign ==
    \/ \E name \in ForeignNames : CallMkdir(name, 0)
    \/ \E name \in ForeignNames, h \in Handles : CallCreate(name, h, 0)
    \/ \E name \in ForeignNames, h \in Handles : CallOpen(name, h, 0)
    \/ \E name \in ForeignNames, flag \in ForeignFlags, h \in Handles :
          CallOpenFile(name, flag, h)
    \/ \E h \in Handles, p \in ForeignWrites : CallWrite(h, p)
    \/ \E h \in Handles : CallSync(h)
    \/ \E h \in Handles : CallClose(h)
    \/ \E name \in ForeignNames : CallRemove(name, 0)
    \/ \E name \in ForeignNames : CallRemoveAll(name, 0)
    \/ \E o \in ForeignNames, n \in ForeignNames : CallRename(o, n, 0)
    \/ \E c \in ForeignSecrets : Disown(c)
    \/ Return

SpecForeign == InitForeign /\ [][NextForeign]_vars

(***************************************************************************)
(* Goroutines on one File.  The caller opens the key n1/s1/k1 for writing  *)
(* and starts MaxProcs goroutines that each make one call of Read, Write,  *)
(* WriteString or Seek on the File.  A step of a goroutine is one access   *)
(* to the field pos, or one critical section of File.mu that touches no    *)
(* field another goroutine can touch outside the lock.  File.mu is a       *)
(* sync.RWMutex: Read holds it shared, WriteAt and Seek hold it exclusive; *)
(* Write and WriteString read and add to pos without it.  During the       *)
(* calls last.buf holds the value, last.n the position the File had before *)
(* them, and last.procs the goroutines: their call (op, p, len, offset,    *)
(* whence), their place in it (pc), the position they loaded (a), the      *)
(* bytes they transferred (n).                                             *)
(***************************************************************************)
RaceName == LeafName(FileSecret, <<"k1">>)

\* the calls the goroutines make
RaceCalls ==
    { [op |-> "Write", p |-> << 1 >>, len |-> 0, offset |-> 0, whence |-> SeekStart],
      [op |-> "WriteString", p |-> << 0 >>, len |-> 0, offset |-> 0, whence |-> SeekStart],
      [op |-> "Read", p |-> << >>, len |-> 1, offset |-> 0, whence |-> SeekStart],
      [op |-> "Seek", p |-> << >>, len |-> 0, offset |-> 1, whence |-> SeekCurrent] }

Procs == 1..MaxProcs

\* the goroutine as it starts its call
Started(c) == [call |-> c, pc |-> "start", a |-> 0, n |-> 0, err |-> Nil]

\* the goroutines that hold File.mu shared (Read) and exclusive (Seek)
RLocked(ps) == { i \in DOMAIN ps : ps[i].call.op = "Read" /\ ps[i].pc \in { "pos", "add", "store" } }

Locked(ps) == { i \in DOMAIN ps : ps[i].call.op = "Seek" /\ ps[i].pc \in { "pos", "store" } }

\* go f.Read(..), go f.Write(..), ...: the goroutines start
Go(h, cs) ==
    /\ Idle
    /\ Holds(h)
    /\ ~Held(h).spath.isDir /\ ~Held(h).readonly /\ ~Held(h).closed
    /\ Held(h).pos + MaxProcs <= MaxLen
    /\ last' = [Call("go", Held(h).name, EmptyStr, h, Held(h).value, Held(h).pos, 0, Nil)
                   EXCEPT !.procs = [i \in Procs |-> Started(cs[i])]]
    /\ UNCHANGED << store, handles >>

\* the goroutine i goes on to pc with the changes ch of its record, the File
\* becomes f
Goes(i, f, pc, a, n, err) ==
    /\ handles' = [handles EXCEPT ![last.h] = << f >>]
    /\ last' = [last EXCEPT !.procs[i] = [@ EXCEPT !.pc = pc, !.a = a, !.n = n, !.err = err]]
    /\ UNCHANGED store

\* File.Write, File.WriteString: n, err = f.WriteAt(p, f.pos); f.pos += n
StepWrite(i, me, f) ==
    \/ /\ me.pc = "start"
       \* the argument f.pos is loaded
       /\ Goes(i, f, "writeat", f.pos, 0, Nil)
    \/ /\ me.pc = "writeat"
       \* WriteAt: the whole of it holds f.mu exclusive
       /\ RLocked(last.procs) = {} /\ Locked(last.procs) = {}
       /\ \E r \in { WriteAt(f, me.call.p, me.a) } :
             IF r.err # Nil THEN Goes(i, r.f, "done", me.a, 0, r.err)
             ELSE Goes(i, r.f, "add", me.a, r.n, Nil)
    \/ /\ me.pc = "add"
       \* f.pos += n: pos is loaded
       /\ Goes(i, f, "store", f.pos, me.n, Nil)
    \/ /\ me.pc = "store"
       \* f.pos += n: the sum is stored
       /\ Goes(i, [f EXCEPT !.pos = me.a + me.n], "done", me.a, me.n, Nil)

\* File.Read: under the shared lock, the bytes at pos are read, then f.pos += n
StepRead(i, me, f) ==
    \/ /\ me.pc = "start"
       /\ IF validateRO(f) # Nil THEN Goes(i, f, "done", 0, 0, validateRO(f))
          ELSE /\ Locked(last.procs) = {}
               /\ Goes(i, f, "pos", 0, 0, Nil)
    \/ /\ me.pc = "pos"
       \* r.Seek(f.pos, io.SeekStart); r.Read(p): pos is loaded, the bytes are read
       /\ \E r \in { Read(f, me.call.len) } :
             Goes(i, f, "add", f.pos, r.n, r.err)
    \/ /\ me.pc = "add"
       /\ Goes(i, f, "store", f.pos, me.n, me.err)
    \/ /\ me.pc = "store"
       /\ Goes(i, [f EXCEPT !.pos = me.a + me.n], "done", me.a, me.n, me.err)

\* File.Seek: under the exclusive lock, pos is loaded, the new position stored
StepSeek(i, me, f) ==
    \/ /\ me.pc = "start"
       /\ IF validateRO(f) # Nil THEN Goes(i, f, "done", 0, 0, validateRO(f))
          ELSE /\ RLocked(last.procs) = {} /\ Locked(last.procs) = {}
               /\ Goes(i, f, "pos", 0, 0, Nil)
    \/ /\ me.pc = "pos"
       /\ Goes(i, f, "store", f.pos, 0, Nil)
    \/ /\ me.pc = "store"
       /\ \E r \in { Seek([f EXCEPT !.pos = me.a], me.call.offset, me.call.whence) } :
             IF r.err # Nil THEN Goes(i, f, "done", me.a, 0, r.err)
             ELSE Goes(i, [f EXCEPT !.pos = r.n], "done", me.a, r.n, Nil)

\* the goroutine i takes its next step
Step(i) ==
    /\ last.op = "go"
    /\ i \in DOMAIN last.procs
    /\ last.procs[i].pc # "done"
    /\ IF last.procs[i].call.op \in { "Write", "WriteString" }
       THEN StepWrite(i, last.procs[i], Held(last.h))
       ELSE IF last.procs[i].call.op = "Read"
       THEN StepRead(i, last.procs[i], Held(last.h))
       ELSE StepSeek(i, last.procs[i], Held(last.h))

\* every goroutine has returned: the caller goes on
WaitAll ==
    /\ last.op = "go"
    /\ \A i \in DOMAIN last.procs : last.procs[i].pc = "done"
    /\ last' = NoCall
    /\ UNCHANGED << store, handles >>

InitRace == InitBytes

NextRace ==
    \/ \E h \in Handles : CallOpenFile(RaceName, { "O_RDWR" }, h)
    \/ \E h \in Handles, cs \in [Procs -> RaceCalls] : Go(h, cs)
    \/ \E i \in Procs : Step(i)
    \/ WaitAll
    \/ Return

SpecRace == InitRace /\ [][NextRace]_vars

(***************************************************************************)
(* Truncate on open: the caller opens the secret n1/s1 and its key k1      *)
(* with O_TRUNC and a write mode, with and without O_APPEND, writes and    *)
(* closes.                                                                 *)
(***************************************************************************)
TruncFlags ==
    { { "O_TRUNC", "O_RDWR" }, { "O_TRUNC", "O_WRONLY" },
      { "O_TRUNC", "O_RDWR", "O_APPEND" }, { "O_TRUNC", "O_WRONLY", "O_APPEND" } }

NextTrunc ==
    \/ \E name \in FileNames, flag \in TruncFlags, h \in Handles : CallOpenFile(name, flag, h)
    \/ \E h \in Handles, p \in Values : CallWrite(h, p)
    \/ \E h \in Handles : CallClose(h)
    \/ Return

SpecTrunc == InitFile /\ [][NextTrunc]_vars

(***************************************************************************)
(* Remove next to Create.  Two goroutines share the filesystem: one calls  *)
(* Remove(name), the other Create(name).  A step of a goroutine is one     *)
(* request to the cluster together with the code around it.  Remove is     *)
(* Stat (one Get), the test isEmptyDir on the File Stat has loaded, and    *)
(* backend.Delete (its get, then the Delete request, without b.mu);        *)
(* Create is backend.Get and backend.Update; backend.Update holds b.mu     *)
(* over its get and its Update request.  last.procs holds the goroutines:  *)
(* their call (op, name), their place in it (pc), the File they have       *)
(* loaded (f), the secret backend.Update has read (ks), what they return   *)
(* (err).                                                                  *)
(***************************************************************************)
RemoveNames == { DirName(FileSecret), LeafName(FileSecret, <<"k1">>) }

CreateNames == { LeafName(FileSecret, k) : k \in Keys }

\* the goroutine as it starts its call of op on name
StartedOn(op, name) ==
    [op |-> op, name |-> name, pc |-> "start", err |-> Nil, f |-> NoFile, ks |-> Absent]

\* the goroutines that hold b.mu
MuLocked(ps) == { i \in DOMAIN ps : ps[i].pc = "update" }

\* go sfs.Remove(rn), go sfs.Create(cn): the goroutines start
GoRemoveCreate(rn, cn) ==
    /\ Idle
    /\ last' = [Call("go", rn, cn, Dropped, << >>, 0, 0, Nil)
                   EXCEPT !.procs = << StartedOn("Remove", rn), StartedOn("Create", cn) >>]
    /\ UNCHANGED << store, handles >>

\* the goroutine i goes on to pc, the cluster becomes st
Advance(i, st, pc, err, f, ks) ==
    /\ store' = st
    /\ last' = [last EXCEPT !.procs[i] =
                   [@ EXCEPT !.pc = pc, !.err = err, !.f = f, !.ks = ks]]
    /\ UNCHANGED handles

\* backend.Update of the File me.f: b.mu is taken and the secret read, then
\* the secret is sent with the File's key set or deleted
StepUpdate(i, me) ==
    \/ /\ me.pc = "lock"
       /\ MuLocked(last.procs) = {}
       /\ \E r \in { get(World(store, 0), me.f.spath.namespace, me.f.spath.secret) } :
             IF r.err # Nil
             THEN Advance(i, r.w.st, "done", wrapPathError(r.err), me.f, Absent)
             ELSE Advance(i, r.w.st, "update", Nil, me.f, r.ks)
    \/ /\ me.pc = "update"
       /\ \E u \in { kUpdate(World(store, 0), me.f.spath.namespace,
                             internalName(me.f.spath.secret),
                             [me.ks EXCEPT !.data = UpdatedData(me.ks.data, me.f)]) } :
             Advance(i, u.w.st, "done", wrapPathError(u.err), me.f, me.ks)

\* secfs.Remove
StepRemove(i, me) ==
    \/ /\ me.pc = "start"
       \* Stat, and for a secret the test isEmptyDir
       /\ \E si \in { Stat(World(store, 0), me.name) } :
             IF si.err # Nil
             THEN Advance(i, si.w.st, "done", wrapPathError(si.err), NoFile, Absent)
             ELSE IF IsDir(si.f)
                  THEN IF ~isEmptyDir(si.f)
                       THEN Advance(i, si.w.st, "done", wrapPathError("ENOTEMPTY"), si.f, Absent)
                       ELSE Advance(i, si.w.st, "get", Nil, si.f, Absent)
                  ELSE Advance(i, si.w.st, "lock", Nil, [si.f EXCEPT !.delete = TRUE], Absent)
    \/ /\ me.pc = "get"
       \* backend.Delete: b.get
       /\ \E r \in { get(World(store, 0), me.f.spath.namespace, me.f.spath.secret) } :
             IF IsNotFound(r.err) THEN Advance(i, r.w.st, "done", Nil, me.f, Absent)
             ELSE IF r.err # Nil
                  THEN Advance(i, r.w.st, "done", wrapPathError(r.err), me.f, Absent)
                  ELSE Advance(i, r.w.st, "delete", Nil, me.f, r.ks)
    \/ /\ me.pc = "delete"
       \* backend.Delete: Secrets(ns).Delete
       /\ \E d \in { kDelete(World(store, 0), me.f.spath.namespace,
                             internalName(me.f.spath.secret)) } :
             Advance(i, d.w.st, "done", wrapPathError(d.err), me.f, me.ks)
    \/ StepUpdate(i, me)

\* secfs.Create (FileCreate)
StepCreate(i, me) ==
    \/ /\ me.pc = "start"
       \* newFile and backend.Get; the key is set empty in the File's map
       /\ \E n \in { newFile(me.name) } :
             IF n.err # Nil
             THEN Advance(i, store, "done", wrapPathError(n.err), NoFile, Absent)
             ELSE IF IsDir(n.f)
                  THEN Advance(i, store, "done", wrapPathError("EISDIR"), NoFile, Absent)
                  ELSE \E g \in { backendGet(World(store, 0), [n.f EXCEPT !.readonly = FALSE]) } :
                          IF g.err # Nil
                          THEN Advance(i, g.w.st, "done", wrapPathError("ENOENT"), NoFile, Absent)
                          ELSE Advance(i, g.w.st, "lock", Nil,
                                       [g.f EXCEPT !.data = SetKey(g.f.data, g.f.key, << >>)],
                                       Absent)
    \/ StepUpdate(i, me)

\* a goroutine takes its next step
StepFs(i) ==
    /\ last.op = "go"
    /\ i \in DOMAIN last.procs
    /\ last.procs[i].pc # "done"
    /\ IF last.procs[i].op = "Remove" THEN StepRemove(i, last.procs[i])
       ELSE StepCreate(i, last.procs[i])

\* New: the cluster holds the secret n1/s1 or not, with any keys
InitRemove ==
    /\ store \in { [NoSecrets EXCEPT ![FileSecret] = s] : s \in SeedSecrets }
    /\ handles = NoHandles
    /\ last = NoCall

NextRemove ==
    \/ \E rn \in RemoveNames, cn \in CreateNames : GoRemoveCreate(rn, cn)
    \/ \E i \in 1..2 : StepFs(i)
    \/ WaitAll

SpecRemove == InitRemove /\ [][NextRemove]_vars

(***************************************************************************)
(* The path parser alone: a caller parses any name of up to MaxPath        *)
(* characters and takes the Absolute string of the path it gets.           *)
(***************************************************************************)
CallNewSecretPath(name) ==
    /\ Idle
    /\ \E r \in { newSecretPath(name) } :
          last' = [Call("newSecretPath", name,
                        IF r.err = Nil THEN Absolute(r.p) ELSE EmptyStr,
                        Dropped, << >>, 0, 0, r.err)
                      EXCEPT !.path = r.p]
    /\ UNCHANGED << store, handles >>

InitPath ==
    /\ store = NoSecrets
    /\ handles = NoHandles
    /\ last = NoCall

NextPath ==
    \/ \E name \in RawNames : CallNewSecretPath(name)
    \/ Return

SpecPath == InitPath /\ [][NextPath]_vars

(***************************************************************************)
(* Vocabulary of the properties.                                           *)
(***************************************************************************)
Valid(name) == newSecretPath(name).err = Nil

PathOfName(name) == newSecretPath(name).p

\* the secret a path addresses, in cluster st
SecretAt(st, p) == st[Obj(p.namespace, internalName(p.secret))]

\* the path's secret is one the filesystem manages
Resolves(st, p) == SecretAt(st, p).exists /\ SecretAt(st, p).managed

HasKey(st, p, k) == Resolves(st, p) /\ k \in DOMAIN SecretAt(st, p).data

\* no secret is in the cluster under the path's name
Missing(st, p) == ~SecretAt(st, p).exists

\* the key (secret, key) of the cluster
Cell(p, k) == << Obj(p.namespace, internalName(p.secret)), k >>

\* clusters a and b hold the same secrets with the same keys and values,
\* except for the keys in cells
SameExcept(a, b, cells) ==
    \A c \in StoreKeys :
        /\ a[c].exists = b[c].exists
        /\ a[c].managed = b[c].managed
        /\ \A k \in (DOMAIN a[c].data) \cup (DOMAIN b[c].data) :
              << c, k >> \notin cells =>
                  /\ k \in DOMAIN a[c].data
                  /\ k \in DOMAIN b[c].data
                  /\ a[c].data[k] = b[c].data[k]

\* clusters a and b differ at most in the secrets of objs
SameSecretsExcept(a, b, objs) == \A c \in StoreKeys \ objs : a[c] = b[c]

ObjOf(p) == Obj(p.namespace, internalName(p.secret))

\* the call made in this step
Made(op) == last'.op = op

\* Rename of a key: both names are paths of one namespace, the old one a file
LeafRename(o, n) ==
    /\ Valid(o) /\ Valid(n)
    /\ PathOfName(o).namespace = PathOfName(n).namespace
    /\ ~PathOfName(o).isDir

\* the key the moved file gets and the cell it lands in
DestKey(o, n) ==
    IF PathOfName(n).isDir THEN PathOfName(o).key ELSE PathOfName(n).key

DestCell(o, n) == Cell(PathOfName(n), DestKey(o, n))

SrcCell(o) == Cell(PathOfName(o), PathOfName(o).key)

\* the File is an open, writable File of a key
WritableFile(f) == ~f.spath.isDir /\ ~f.readonly /\ ~f.closed

\* the File of the call made in this step, as it was and as it is
Before == handles[last'.h][1]

After == handles'[last'.h][1]

\* the first len bytes of value
Prefix(value, len) == SubSeq(value, 1, IF len < Len(value) THEN len ELSE Len(value))

(***************************************************************************)
(* C1: the persisted round trip.  Mkdir of a secret that does not exist    *)
(* makes it, with no key.  Create of a key the secret does not hold gives  *)
(* a writable File with no bytes at position 0.  Write of bytes B to such  *)
(* a File makes B its content.  Close of a writable File succeeds and      *)
(* stores the content of the File under its key, and an Open of its path   *)
(* followed by a Read at position 0 returns exactly that content: after    *)
(* Mkdir, Create, Write(B) and Close, Open and Read of len(B) bytes        *)
(* return B.                                                               *)
(***************************************************************************)
C1_RoundTrip ==
    [][ /\ (/\ Made("Mkdir") /\ Valid(last'.name)
            /\ PathOfName(last'.name).isDir
            /\ Missing(store, PathOfName(last'.name)))
           => (/\ last'.err = Nil
               /\ Resolves(store', PathOfName(last'.name))
               /\ DOMAIN SecretAt(store', PathOfName(last'.name)).data = {})
        /\ (/\ Made("Create") /\ Valid(last'.name)
            /\ ~PathOfName(last'.name).isDir
            /\ Resolves(store, PathOfName(last'.name))
            /\ ~HasKey(store, PathOfName(last'.name), PathOfName(last'.name).key))
           => (/\ last'.err = Nil
               /\ handles'[last'.h] # << >>
               /\ After.name = last'.name
               /\ WritableFile(After)
               /\ After.value = << >>
               /\ After.pos = 0)
        /\ (/\ Made("Write")
            /\ WritableFile(Before)
            /\ Before.value = << >> /\ Before.pos = 0)
           => (/\ last'.err = Nil
               /\ last'.n = Len(last'.buf)
               /\ After.value = last'.buf)
        /\ (Made("Close") /\ WritableFile(Before))
           => (/\ last'.err = Nil
               /\ HasKey(store', PathOfName(last'.name), PathOfName(last'.name).key)
               /\ SecretAt(store', PathOfName(last'.name)).data[PathOfName(last'.name).key]
                     = Before.value
               /\ \A o \in { Open(World(store', 0), last'.name) } :
                     /\ o.err = Nil
                     /\ o.f.pos = 0
                     /\ \A len \in 0..(MaxLen + 1) :
                           \A r \in { Read(o.f, len) } :
                              /\ r.buf = Prefix(Before.value, len)
                              /\ r.n = Len(Prefix(Before.value, len))
                              /\ len = Len(Before.value) => r.buf = Before.value) ]_vars

\* a Read of a File got by Open has returned the bytes 0, 1: no secret is
\* constructed with them, they were written to a created File and flushed
\* by its Close
C1_Witness ==
    /\ last.op = "Read" /\ last.err = Nil
    /\ last.buf = << 0, 1 >> /\ last.n = 2
    /\ Holds(last.h) /\ Held(last.h).readonly
    /\ SecretAt(store, PathOfName(last.name)).data[PathOfName(last.name).key] = << 0, 1 >>

C4_CrossNamespace ==
    [][ (/\ Made("Rename")
         /\ Valid(last'.name) /\ Valid(last'.to)
         /\ PathOfName(last'.name).namespace # PathOfName(last'.to).namespace)
        => (last'.err = "ErrMoveCrossNamespace" /\ store' = store) ]_vars

\* a Rename of an existing file into an existing secret of another
\* namespace has been refused
C4_Witness ==
    /\ last.op = "Rename" /\ last.err = "ErrMoveCrossNamespace"
    /\ last.name = LeafName(<< <<"n1">>, <<"s1">> >>, <<"k1">>)
    /\ last.to = DirName(<< <<"n2">>, <<"s1">> >>)
    /\ HasKey(last.pre, PathOfName(last.name), <<"k1">>)
    /\ Resolves(last.pre, PathOfName(last.to))
    /\ store = last.pre

(***************************************************************************)
(* C5: Rename of a secret onto a file path of the same namespace fails     *)
(* with ErrMoveConvert and changes nothing.                                *)
(***************************************************************************)
C5_MoveConvert ==
    [][ (/\ Made("Rename")
         /\ Valid(last'.name) /\ Valid(last'.to)
         /\ PathOfName(last'.name).namespace = PathOfName(last'.to).namespace
         /\ PathOfName(last'.name).isDir
         /\ ~PathOfName(last'.to).isDir)
        => (last'.err = "ErrMoveConvert" /\ store' = store) ]_vars

\* a Rename of an existing secret onto a key of a secret that does not
\* exist has been refused
C5_Witness ==
    /\ last.op = "Rename" /\ last.err = "ErrMoveConvert"
    /\ last.name = DirName(<< <<"n1">>, <<"s1">> >>)
    /\ last.to = LeafName(<< <<"n1">>, <<"s2">> >>, <<"k1">>)
    /\ Resolves(last.pre, PathOfName(last.name))
    /\ Missing(last.pre, PathOfName(last.to))
    /\ store = last.pre

(***************************************************************************)
(* C6: Rename of a secret to a secret path of the same namespace, neither  *)
(* name being taken by a secret the filesystem does not manage: it fails   *)
(* with NotExist when the old secret does not exist; it fails with EEXIST  *)
(* when the old one exists and the new one exists too, and nothing is      *)
(* overwritten; otherwise it succeeds, the new name holds the key-value    *)
(* mapping the old one held, and the old one is gone.                      *)
(***************************************************************************)
C6_ContainerRename ==
    [][ (/\ Made("Rename")
         /\ Valid(last'.name) /\ Valid(last'.to)
         /\ PathOfName(last'.name).namespace = PathOfName(last'.to).namespace
         /\ PathOfName(last'.name).isDir /\ PathOfName(last'.to).isDir
         /\ Missing(store, PathOfName(last'.name)) \/ Resolves(store, PathOfName(last'.name))
         /\ Missing(store, PathOfName(last'.to)) \/ Resolves(store, PathOfName(last'.to)))
        => IF Missing(store, PathOfName(last'.name))
           THEN IsNotExist(last'.err) /\ store' = store
           ELSE IF Resolves(store, PathOfName(last'.to))
           THEN IsExist(last'.err) /\ store' = store
           ELSE /\ last'.err = Nil
                /\ SecretAt(store', PathOfName(last'.to)) = SecretAt(store, PathOfName(last'.name))
                /\ Missing(store', PathOfName(last'.name))
                /\ SameSecretsExcept(store, store',
                                     { ObjOf(PathOfName(last'.name)),
                                       ObjOf(PathOfName(last'.to)) }) ]_vars

\* a secret with two keys has been renamed: the new name holds them and
\* the old name is gone
C6_Witness ==
    /\ last.op = "Rename" /\ last.err = Nil
    /\ last.name = DirName(<< <<"n1">>, <<"s1">> >>)
    /\ last.to = DirName(<< <<"n1">>, <<"s2">> >>)
    /\ Resolves(last.pre, PathOfName(last.name))
    /\ Missing(last.pre, PathOfName(last.to))
    /\ Missing(store, PathOfName(last.name))
    /\ Resolves(store, PathOfName(last.to))
    /\ DOMAIN SecretAt(store, PathOfName(last.to)).data = Keys

\* a Rename of a secret onto an existing secret has failed with EEXIST
C6_WitnessExist ==
    /\ last.op = "Rename" /\ IsExist(last.err)
    /\ last.name = DirName(<< <<"n1">>, <<"s1">> >>)
    /\ last.to = DirName(<< <<"n1">>, <<"s2">> >>)
    /\ Resolves(last.pre, PathOfName(last.name))
    /\ Resolves(last.pre, PathOfName(last.to))
    /\ store = last.pre

(***************************************************************************)
(* C7: a Rename of a file that fails because the old key does not exist    *)
(* (in a managed secret, or with no secret at all) or because the secret   *)
(* of the destination does not exist returns NotExist and changes nothing: *)
(* no destination key is created and the old key is not removed.           *)
(***************************************************************************)
C7_FailedLeafRename ==
    [][ (/\ Made("Rename")
         /\ LeafRename(last'.name, last'.to)
         /\ \/ Missing(store, PathOfName(last'.name))
            \/ /\ Resolves(store, PathOfName(last'.name))
               /\ ~HasKey(store, PathOfName(last'.name), PathOfName(last'.name).key)
            \/ /\ HasKey(store, PathOfName(last'.name), PathOfName(last'.name).key)
               /\ Missing(store, PathOfName(last'.to)))
        => (IsNotExist(last'.err) /\ store' = store) ]_vars

\* a Rename of an existing key into a secret that does not exist has failed
\* with NotExist, and the key is still there
C7_Witness ==
    /\ last.op = "Rename" /\ IsNotExist(last.err)
    /\ last.name = LeafName(<< <<"n1">>, <<"s1">> >>, <<"k1">>)
    /\ last.to = LeafName(<< <<"n1">>, <<"s2">> >>, <<"k1">>)
    /\ HasKey(last.pre, PathOfName(last.name), <<"k1">>)
    /\ Missing(last.pre, PathOfName(last.to))
    /\ store = last.pre

\* a Rename of a key that is not in its secret has failed with NotExist
C7_WitnessNoSource ==
    /\ last.op = "Rename" /\ IsNotExist(last.err)
    /\ last.name = LeafName(<< <<"n1">>, <<"s1">> >>, <<"k1">>)
    /\ last.to = LeafName(<< <<"n1">>, <<"s2">> >>, <<"k1">>)
    /\ Resolves(last.pre, PathOfName(last.name))
    /\ ~HasKey(last.pre, PathOfName(last.name), <<"k1">>)
    /\ Resolves(last.pre, PathOfName(last.to))
    /\ store = last.pre

\* a request of the call made in this step has failed
RequestFailed(w) == last'.fault > 0 /\ w.f = 0

(***************************************************************************)
(* C8: Rename is not rolled back.  When a request of a Rename fails and    *)
(* the call leaves the destination holding what the source held (the copy  *)
(* is done), Rename returns an error and the source is still there: the    *)
(* value of a file is under both keys, the mapping of a secret under both  *)
(* names.  Nothing else has changed.                                       *)
(***************************************************************************)
C8_NoRollback ==
    [][ (/\ Made("Rename")
         /\ Valid(last'.name) /\ Valid(last'.to)
         /\ PathOfName(last'.name).namespace = PathOfName(last'.to).namespace
         /\ RequestFailed(secfsRename(World(store, last'.fault), last'.name, last'.to).w))
        => (/\ (/\ ~PathOfName(last'.name).isDir
                /\ HasKey(store, PathOfName(last'.name), PathOfName(last'.name).key)
                /\ DestCell(last'.name, last'.to) # SrcCell(last'.name)
                /\ HasKey(store', PathOfName(last'.to), DestKey(last'.name, last'.to))
                /\ SecretAt(store', PathOfName(last'.to)).data[DestKey(last'.name, last'.to)]
                      = SecretAt(store, PathOfName(last'.name)).data[PathOfName(last'.name).key])
               => (/\ last'.err # Nil
                   /\ HasKey(store', PathOfName(last'.name), PathOfName(last'.name).key)
                   /\ SecretAt(store', PathOfName(last'.name)).data[PathOfName(last'.name).key]
                         = SecretAt(store, PathOfName(last'.name)).data[PathOfName(last'.name).key]
                   /\ SameExcept(store, store', { DestCell(last'.name, last'.to) }))
            /\ (/\ PathOfName(last'.name).isDir /\ PathOfName(last'.to).isDir
                /\ Resolves(store, PathOfName(last'.name))
                /\ Missing(store, PathOfName(last'.to))
                /\ SecretAt(store', PathOfName(last'.to)) = SecretAt(store, PathOfName(last'.name)))
               => (/\ last'.err # Nil
                   /\ SecretAt(store', PathOfName(last'.name))
                         = SecretAt(store, PathOfName(last'.name))
                   /\ SameSecretsExcept(store, store', { ObjOf(PathOfName(last'.to)) }))) ]_vars

\* a Rename of a file has returned an error: the key it was to get was not
\* in the secret and now holds its value <<1>>, and the old key holds it too
C8_Witness ==
    /\ last.op = "Rename" /\ last.err # Nil /\ last.fault > 0
    /\ last.name = LeafName(<< <<"n1">>, <<"s1">> >>, <<"k1">>)
    /\ last.to = LeafName(<< <<"n1">>, <<"s2">> >>, <<"k2">>)
    /\ HasKey(last.pre, PathOfName(last.name), <<"k1">>)
    /\ SecretAt(last.pre, PathOfName(last.name)).data[<<"k1">>] = <<1>>
    /\ Resolves(last.pre, PathOfName(last.to))
    /\ ~HasKey(last.pre, PathOfName(last.to), <<"k2">>)
    /\ HasKey(store, PathOfName(last.to), <<"k2">>)
    /\ SecretAt(store, PathOfName(last.to)).data[<<"k2">>] = <<1>>
    /\ HasKey(store, PathOfName(last.name), <<"k1">>)
    /\ SecretAt(store, PathOfName(last.name)).data[<<"k1">>] = <<1>>

\* a Rename of a secret has returned an error: the new name holds the
\* mapping and the old name holds it too
C8_WitnessDir ==
    /\ last.op = "Rename" /\ last.err # Nil /\ last.fault > 0
    /\ last.name = DirName(<< <<"n1">>, <<"s1">> >>)
    /\ last.to = DirName(<< <<"n1">>, <<"s2">> >>)
    /\ Resolves(last.pre, PathOfName(last.name))
    /\ DOMAIN SecretAt(last.pre, PathOfName(last.name)).data = Keys
    /\ Missing(last.pre, PathOfName(last.to))
    /\ SecretAt(store, PathOfName(last.to)) = SecretAt(last.pre, PathOfName(last.name))
    /\ SecretAt(store, PathOfName(last.name)) = SecretAt(last.pre, PathOfName(last.name))

(***************************************************************************)
(* C9: Remove of a managed secret that holds at least one key fails with   *)
(* ENOTEMPTY and changes nothing; RemoveAll of the same secret succeeds    *)
(* and deletes the secret with all its keys, and no other secret changes.  *)
(***************************************************************************)
C9_RemoveNonEmpty ==
    [][ (/\ Valid(last'.name)
         /\ PathOfName(last'.name).isDir
         /\ Resolves(store, PathOfName(last'.name))
         /\ DOMAIN SecretAt(store, PathOfName(last'.name)).data # {})
        => (/\ Made("Remove") => (last'.err = "ENOTEMPTY" /\ store' = store)
            /\ Made("RemoveAll") =>
                  (/\ last'.err = Nil
                   /\ Missing(store', PathOfName(last'.name))
                   /\ SameSecretsExcept(store, store', { ObjOf(PathOfName(last'.name)) }))) ]_vars

\* a Remove has been refused with ENOTEMPTY for a secret with two keys
C9_Witness ==
    /\ last.op = "Remove" /\ last.err = "ENOTEMPTY"
    /\ last.name = DirName(<< <<"n1">>, <<"s1">> >>)
    /\ Resolves(last.pre, PathOfName(last.name))
    /\ DOMAIN SecretAt(last.pre, PathOfName(last.name)).data = Keys
    /\ store = last.pre

\* a RemoveAll has deleted a secret with two keys
C9_WitnessAll ==
    /\ last.op = "RemoveAll" /\ last.err = Nil
    /\ last.name = DirName(<< <<"n1">>, <<"s1">> >>)
    /\ Resolves(last.pre, PathOfName(last.name))
    /\ DOMAIN SecretAt(last.pre, PathOfName(last.name)).data = Keys
    /\ Missing(store, PathOfName(last.name))

(***************************************************************************)
(* C10: Remove of an existing file deletes exactly that key from its       *)
(* secret; after it, Open of the same path and a second Remove fail with   *)
(* NotExist.  Remove of an existing empty managed secret succeeds and      *)
(* deletes it; a second Remove of the same path fails with NotExist.       *)
(***************************************************************************)
C10_RemoveThenGone ==
    [][ (Made("Remove") /\ Valid(last'.name))
        => (/\ (/\ ~PathOfName(last'.name).isDir
                /\ HasKey(store, PathOfName(last'.name), PathOfName(last'.name).key))
               => (/\ last'.err = Nil
                   /\ Resolves(store', PathOfName(last'.name))
                   /\ ~HasKey(store', PathOfName(last'.name), PathOfName(last'.name).key)
                   /\ SameExcept(store, store', { SrcCell(last'.name) })
                   /\ IsNotExist(Open(World(store', 0), last'.name).err)
                   /\ IsNotExist(secfsRemove(World(store', 0), last'.name).err))
            /\ (/\ PathOfName(last'.name).isDir
                /\ Resolves(store, PathOfName(last'.name))
                /\ DOMAIN SecretAt(store, PathOfName(last'.name)).data = {})
               => (/\ last'.err = Nil
                   /\ Missing(store', PathOfName(last'.name))
                   /\ SameSecretsExcept(store, store', { ObjOf(PathOfName(last'.name)) })
                   /\ IsNotExist(secfsRemove(World(store', 0), last'.name).err))) ]_vars

\* a key has been removed from a secret that keeps its other key
C10_Witness ==
    /\ last.op = "Remove" /\ last.err = Nil
    /\ last.name = LeafName(<< <<"n1">>, <<"s1">> >>, <<"k1">>)
    /\ DOMAIN SecretAt(last.pre, PathOfName(last.name)).data = Keys
    /\ DOMAIN SecretAt(store, PathOfName(last.name)).data = { <<"k2">> }
    /\ Resolves(store, PathOfName(last.name))

\* an empty secret has been removed
C10_WitnessDir ==
    /\ last.op = "Remove" /\ last.err = Nil
    /\ last.name = DirName(<< <<"n2">>, <<"s1">> >>)
    /\ Resolves(last.pre, PathOfName(last.name))
    /\ DOMAIN SecretAt(last.pre, PathOfName(last.name)).data = {}
    /\ Missing(store, PathOfName(last.name))

(***************************************************************************)
(* C11: RemoveAll of a path that does not resolve (no secret under the     *)
(* name, or a managed secret that does not hold the key) returns nil and   *)
(* changes nothing; a second RemoveAll of the path returns nil too.        *)
(***************************************************************************)
C11_RemoveAllMissing ==
    [][ (/\ Made("RemoveAll") /\ Valid(last'.name)
         /\ \/ Missing(store, PathOfName(last'.name))
            \/ /\ ~PathOfName(last'.name).isDir
               /\ Resolves(store, PathOfName(last'.name))
               /\ ~HasKey(store, PathOfName(last'.name), PathOfName(last'.name).key))
        => (/\ last'.err = Nil
            /\ store' = store
            /\ secfsRemoveAll(World(store', 0), last'.name).err = Nil
            /\ secfsRemoveAll(World(store', 0), last'.name).w.st = store') ]_vars

\* a RemoveAll of a key that its secret does not hold has returned nil and
\* the secret still holds its other key
C11_Witness ==
    /\ last.op = "RemoveAll" /\ last.err = Nil
    /\ last.name = LeafName(<< <<"n1">>, <<"s1">> >>, <<"k1">>)
    /\ Resolves(last.pre, PathOfName(last.name))
    /\ DOMAIN SecretAt(last.pre, PathOfName(last.name)).data = { <<"k2">> }
    /\ store = last.pre

\* a RemoveAll of a secret that does not exist has returned nil
C11_WitnessDir ==
    /\ last.op = "RemoveAll" /\ last.err = Nil
    /\ last.name = DirName(<< <<"n1">>, <<"s2">> >>)
    /\ Missing(last.pre, PathOfName(last.name))
    /\ store = last.pre

(***************************************************************************)
(* C12: Mkdir of a file path fails with ENOTDIR.  Mkdir of the path of a   *)
(* managed secret fails with EEXIST and the secret keeps its keys.  Mkdir  *)
(* of a secret path with no secret under it succeeds: the secret is made   *)
(* with no key and with the annotation, so that Open of the path succeeds  *)
(* with Size 0 and IsDir true.  In every case nothing else changes.        *)
(***************************************************************************)
C12_Mkdir ==
    [][ (Made("Mkdir") /\ Valid(last'.name))
        => (/\ ~PathOfName(last'.name).isDir
               => (last'.err = "ENOTDIR" /\ store' = store)
            /\ (PathOfName(last'.name).isDir /\ Resolves(store, PathOfName(last'.name)))
               => (IsExist(last'.err) /\ store' = store)
            /\ (PathOfName(last'.name).isDir /\ Missing(store, PathOfName(last'.name)))
               => (/\ last'.err = Nil
                   /\ SecretAt(store', PathOfName(last'.name)) = Secret(TRUE, EmptyData)
                   /\ SameSecretsExcept(store, store', { ObjOf(PathOfName(last'.name)) })
                   /\ Open(World(store', 0), last'.name).err = Nil
                   /\ Size(Open(World(store', 0), last'.name).f) = 0
                   /\ IsDir(Open(World(store', 0), last'.name).f))) ]_vars

\* a Mkdir has made a secret that was not there, beside a secret with two keys
C12_Witness ==
    /\ last.op = "Mkdir" /\ last.err = Nil
    /\ last.name = DirName(<< <<"n1">>, <<"s2">> >>)
    /\ Missing(last.pre, PathOfName(last.name))
    /\ Resolves(store, PathOfName(last.name))
    /\ DOMAIN SecretAt(store, PathOfName(last.name)).data = {}
    /\ DOMAIN store[<< <<"n1">>, <<"s1">> >>].data = Keys

\* a Mkdir of an existing secret with two keys has failed with EEXIST
C12_WitnessExist ==
    /\ last.op = "Mkdir" /\ IsExist(last.err)
    /\ last.name = DirName(<< <<"n1">>, <<"s1">> >>)
    /\ DOMAIN SecretAt(last.pre, PathOfName(last.name)).data = Keys
    /\ store = last.pre

\* a Mkdir of a file path has failed with ENOTDIR
C12_WitnessLeaf ==
    /\ last.op = "Mkdir" /\ last.err = "ENOTDIR"
    /\ last.name = LeafName(<< <<"n1">>, <<"s1">> >>, <<"k1">>)
    /\ store = last.pre

(***************************************************************************)
(* C13: MkdirAll of the path of a managed secret that exists returns nil   *)
(* and leaves the cluster as it was.                                       *)
(***************************************************************************)
C13_MkdirAllExisting ==
    [][ (/\ Made("MkdirAll") /\ Valid(last'.name)
         /\ PathOfName(last'.name).isDir
         /\ Resolves(store, PathOfName(last'.name)))
        => (last'.err = Nil /\ store' = store) ]_vars

(***************************************************************************)
(* C14: Create of a secret path fails with EISDIR.  Create of a file path  *)
(* with no secret under it fails with NotExist and creates nothing.  When  *)
(* Create succeeds, the key is in the secret with an empty value as soon   *)
(* as the call returns, the File not yet closed: Open of the path succeeds *)
(* with Size 0.                                                            *)
(***************************************************************************)
C14_Create ==
    [][ (Made("Create") /\ Valid(last'.name))
        => (/\ PathOfName(last'.name).isDir
               => (last'.err = "EISDIR" /\ store' = store)
            /\ (~PathOfName(last'.name).isDir /\ Missing(store, PathOfName(last'.name)))
               => (IsNotExist(last'.err) /\ store' = store)
            /\ last'.err = Nil
               => (/\ HasKey(store', PathOfName(last'.name), PathOfName(last'.name).key)
                   /\ SecretAt(store', PathOfName(last'.name)).data[PathOfName(last'.name).key]
                         = << >>
                   /\ Open(World(store', 0), last'.name).err = Nil
                   /\ Size(Open(World(store', 0), last'.name).f) = 0
                   /\ ~IsDir(Open(World(store', 0), last'.name).f))) ]_vars

\* a Create has returned nil for a key its secret did not hold, and the key
\* is in the secret, empty
C14_Witness ==
    /\ last.op = "Create" /\ last.err = Nil
    /\ last.name = LeafName(<< <<"n1">>, <<"s1">> >>, <<"k2">>)
    /\ Resolves(last.pre, PathOfName(last.name))
    /\ ~HasKey(last.pre, PathOfName(last.name), <<"k2">>)
    /\ HasKey(store, PathOfName(last.name), <<"k2">>)
    /\ SecretAt(store, PathOfName(last.name)).data[<<"k2">>] = << >>

\* a Create in a secret that does not exist has failed with NotExist
C14_WitnessMissing ==
    /\ last.op = "Create" /\ IsNotExist(last.err)
    /\ last.name = LeafName(<< <<"n1">>, <<"s1">> >>, <<"k2">>)
    /\ Missing(last.pre, PathOfName(last.name))
    /\ store = last.pre

\* a Create of the path of an existing secret has failed with EISDIR
C14_WitnessDir ==
    /\ last.op = "Create" /\ last.err = "EISDIR"
    /\ last.name = DirName(<< <<"n1">>, <<"s1">> >>)
    /\ Resolves(last.pre, PathOfName(last.name))
    /\ store = last.pre

\* the operations on the bytes of a File
StreamOps ==
    { "Read", "ReadAt", "Seek", "Write", "WriteAt", "WriteString", "Truncate", "Sync" }

\* the operations that change the bytes of a File
MutatingOps == { "Write", "WriteAt", "WriteString", "Truncate" }

(***************************************************************************)
(* C15: closed is absorbing.  Close sets closed only when it returns nil;  *)
(* on a closed File, Read, ReadAt, Seek, Write, WriteAt, WriteString,      *)
(* Truncate, Sync and Close return ErrFileClosed, transfer no byte, and    *)
(* leave the File (its value, its position, closed) and the cluster as     *)
(* they were.                                                              *)
(***************************************************************************)
C15_ClosedAbsorbing ==
    [][ /\ (Made("Close") /\ ~Before.closed)
           => (After.closed <=> last'.err = Nil)
        /\ (last'.op \in StreamOps \cup { "Close" } /\ Before.closed)
           => (/\ last'.err = "ErrFileClosed"
               /\ last'.n = 0 \/ Made("Truncate")
               /\ Made("Read") \/ Made("ReadAt") => last'.buf = << >>
               /\ After = Before
               /\ store' = store) ]_vars

\* a Write to a File that was writable and is closed has returned
\* ErrFileClosed; the value 0, 1 of the File was stored by its Close
C15_Witness ==
    /\ last.op = "Write" /\ last.err = "ErrFileClosed"
    /\ Holds(last.h) /\ Held(last.h).closed /\ ~Held(last.h).readonly
    /\ Held(last.h).value = << 0, 1 >>
    /\ SecretAt(store, PathOfName(last.name)).data[PathOfName(last.name).key] = << 0, 1 >>

\* a second Close has returned ErrFileClosed
C15_WitnessClose ==
    /\ last.op = "Close" /\ last.err = "ErrFileClosed"
    /\ Holds(last.h) /\ Held(last.h).closed

(***************************************************************************)
(* C16: on an open read-only File of a key (from Open, or from OpenFile    *)
(* with O_RDONLY), Write, WriteAt, WriteString and Truncate return EBADF   *)
(* and leave the value and the position as they were; Sync and Close       *)
(* return nil and send nothing to the cluster.                             *)
(***************************************************************************)
C16_ReadOnly ==
    [][ /\ (/\ Made("Open") \/ (Made("OpenFile") /\ last'.flag = O_RDONLY)
            /\ last'.err = Nil /\ last'.h \in Handles)
           => After.readonly
        /\ (/\ last'.op \in MutatingOps \cup { "Sync", "Close" }
            /\ Before.readonly /\ ~Before.closed /\ ~Before.spath.isDir)
           => (/\ last'.op \in MutatingOps
                  => (/\ last'.err = "EBADF"
                      /\ last'.n = 0 \/ Made("Truncate")
                      /\ After = Before)
               /\ last'.op \in { "Sync", "Close" } => last'.err = Nil
               /\ Made("Sync") => After = Before
               /\ Made("Close") => After = [Before EXCEPT !.closed = TRUE]
               /\ store' = store) ]_vars

\* a Write of bytes to a read-only File of a key holding 1 has returned EBADF
C16_Witness ==
    /\ last.op = "Write" /\ last.err = "EBADF" /\ last.buf = << 0, 1 >>
    /\ Holds(last.h) /\ Held(last.h).readonly /\ ~Held(last.h).closed
    /\ Held(last.h).value = << 1 >>
    /\ store = last.pre

\* a Close of a read-only File has returned nil and the key still holds 1
C16_WitnessClose ==
    /\ last.op = "Close" /\ last.err = Nil
    /\ Holds(last.h) /\ Held(last.h).readonly /\ Held(last.h).closed
    /\ ~Held(last.h).spath.isDir
    /\ SecretAt(store, PathOfName(last.name)).data[PathOfName(last.name).key] = << 1 >>
    /\ store = last.pre

(***************************************************************************)
(* C17: on an open File of a secret, Read, ReadAt, Seek, Write, WriteAt,   *)
(* WriteString, Truncate and Sync return EISDIR and transfer no byte; on a *)
(* File of a key, Readdir and Readdirnames return ENOTDIR and no entry.    *)
(* Neither the File nor the cluster changes.                               *)
(***************************************************************************)
C17_Shape ==
    [][ /\ (last'.op \in StreamOps /\ Before.spath.isDir /\ ~Before.closed)
           => (/\ last'.err = "EISDIR"
               /\ last'.n = 0 \/ Made("Truncate")
               /\ last'.buf = << >> \/ last'.op \in MutatingOps
               /\ After = Before
               /\ store' = store)
        /\ (last'.op \in { "Readdir", "Readdirnames" } /\ ~Before.spath.isDir)
           => (/\ last'.err = "ENOTDIR"
               /\ last'.entries = << >> /\ last'.n = 0
               /\ After = Before
               /\ store' = store) ]_vars

\* a Read of the File of a secret with two keys has returned EISDIR
C17_Witness ==
    /\ last.op = "Read" /\ last.err = "EISDIR" /\ last.n = 0
    /\ Holds(last.h) /\ Held(last.h).spath.isDir /\ ~Held(last.h).closed
    /\ DOMAIN Held(last.h).data = Keys

\* a Readdir of the open File of a key has returned ENOTDIR
C17_WitnessLeaf ==
    /\ last.op = "Readdir" /\ last.err = "ENOTDIR"
    /\ Holds(last.h) /\ ~Held(last.h).spath.isDir /\ ~Held(last.h).closed

\* OpenFile of a key that the cluster holds, in this step
OpenFileOfKey ==
    /\ Made("OpenFile")
    /\ Valid(last'.name)
    /\ ~PathOfName(last'.name).isDir
    /\ HasKey(store, PathOfName(last'.name), PathOfName(last'.name).key)

\* the value of the key that OpenFile addresses in this step
OpenedValue ==
    SecretAt(store, PathOfName(last'.name)).data[PathOfName(last'.name).key]

\* flag asks for truncation: O_TRUNC with O_RDWR or O_WRONLY
Truncating(flag) == "O_TRUNC" \in flag /\ flag \cap { "O_RDWR", "O_WRONLY" } # {}

\* flag asks for exclusive creation
Exclusive(flag) == { "O_CREATE", "O_EXCL" } \subseteq flag

\* Close of a writable File, in this step, returns nil, stores the value of
\* the File in its key and closes the File
CloseStores ==
    (Made("Close") /\ WritableFile(Before))
    => (/\ last'.err = Nil
        /\ HasKey(store', Before.spath, Before.spath.key)
        /\ SecretAt(store', Before.spath).data[Before.spath.key] = Before.value
        /\ After = [Before EXCEPT !.closed = TRUE])

\* the value of the key of File f in the cluster after f.Write(b), f.Close()
\* from cluster st, or Nil when one of the two fails
StoredAfterWriteClose(st, f, b) ==
    Bind({ IF wr.err # Nil \/ wr.n # Len(b) THEN Nil
           ELSE Bind({ IF c.err # Nil THEN Nil
                       ELSE SecretAt(c.w.st, f.spath).data[f.spath.key]
                       : c \in { Close(World(st, 0), wr.f) } })
           : wr \in { Write(f, b) } })

\* Write(b) on File f returns len(b) and leaves f with value v at len(v)
WriteGives(f, b, v) ==
    \A wr \in { Write(f, b) } :
        wr.err = Nil /\ wr.n = Len(b) /\ wr.f.value = v /\ wr.f.pos = Len(v)
        /\ WritableFile(wr.f)

(***************************************************************************)
(* C18: OpenFile with O_CREATE and O_EXCL of a path that exists, the path  *)
(* of a key or of a secret, returns EEXIST (fs.ErrExist) and no File, and  *)
(* leaves the cluster as it was.                                           *)
(***************************************************************************)
C18_ExclusiveCreate ==
    [][ (/\ Made("OpenFile") /\ Exclusive(last'.flag)
         /\ Valid(last'.name)
         /\ Resolves(store, PathOfName(last'.name))
         /\ PathOfName(last'.name).isDir
            \/ HasKey(store, PathOfName(last'.name), PathOfName(last'.name).key))
        => (/\ last'.err = "ErrExist"
            /\ handles' = handles
            /\ store' = store) ]_vars

\* the same for the path of a key only
C18_ExclusiveCreateLeaf ==
    [][ (OpenFileOfKey /\ Exclusive(last'.flag))
        => (/\ last'.err = "ErrExist"
            /\ handles' = handles
            /\ store' = store) ]_vars

\* OpenFile with O_CREATE and O_EXCL of a secret of the cluster has returned
\* its File
C18_WitnessDir ==
    /\ last.op = "OpenFile" /\ Exclusive(last.flag)
    /\ PathOfName(last.name).isDir
    /\ Resolves(last.pre, PathOfName(last.name))
    /\ last.err = Nil
    /\ Holds(last.h) /\ Held(last.h).spath.isDir

(***************************************************************************)
(* C19: OpenFile with O_APPEND (and neither truncation nor exclusive       *)
(* creation) of a key holding V returns a writable File with value V at    *)
(* position len(V) and leaves the cluster as it was; Write(B) on that File *)
(* gives it the value V followed by B, Write(B) and Close store V followed *)
(* by B, and every Close of a writable File stores the value of the File.  *)
(***************************************************************************)
C19_Append ==
    [][ /\ (/\ OpenFileOfKey
            /\ "O_APPEND" \in last'.flag
            /\ ~Truncating(last'.flag) /\ ~Exclusive(last'.flag))
           => (/\ last'.err = Nil
               /\ WritableFile(After)
               /\ After.value = OpenedValue
               /\ After.pos = Len(OpenedValue)
               /\ store' = store
               /\ \A b \in Values :
                     /\ WriteGives(After, b, OpenedValue \o b)
                     /\ StoredAfterWriteClose(store', After, b) = OpenedValue \o b)
        /\ CloseStores ]_vars

\* OpenFile with O_APPEND of a key holding 1 has returned a File at position 1
C19_Witness ==
    /\ last.op = "OpenFile" /\ "O_APPEND" \in last.flag /\ last.err = Nil
    /\ ~PathOfName(last.name).isDir
    /\ SecretAt(last.pre, PathOfName(last.name)).data[PathOfName(last.name).key] = << 1 >>
    /\ Holds(last.h) /\ Held(last.h).pos = 1 /\ Held(last.h).value = << 1 >>

\* Close of a File at position 2 has stored 1, 0 in the key that held 1
C19_WitnessStored ==
    /\ last.op = "Close" /\ last.err = Nil
    /\ ~PathOfName(last.name).isDir
    /\ HasKey(last.pre, PathOfName(last.name), PathOfName(last.name).key)
    /\ SecretAt(last.pre, PathOfName(last.name)).data[PathOfName(last.name).key] = << 1 >>
    /\ SecretAt(store, PathOfName(last.name)).data[PathOfName(last.name).key] = << 1, 0 >>
    /\ Holds(last.h) /\ Held(last.h).pos = 2

(***************************************************************************)
(* C20: OpenFile with O_TRUNC and O_RDWR or O_WRONLY, without O_APPEND, of *)
(* a key holding V returns a writable File with no byte at position 0, on  *)
(* which Write(B) gives the value B, which Close stores.  OpenFile with    *)
(* O_RDWR alone returns a writable File with value V at position 0, on     *)
(* which Write(B) gives B followed by the bytes of V after the first       *)
(* len(B), which Close stores.  OpenFile changes nothing in the cluster.   *)
(***************************************************************************)
C20_Truncate ==
    [][ /\ (/\ OpenFileOfKey
            /\ Truncating(last'.flag)
            /\ "O_APPEND" \notin last'.flag /\ ~Exclusive(last'.flag))
           => (/\ last'.err = Nil
               /\ WritableFile(After)
               /\ After.value = << >> /\ After.pos = 0
               /\ store' = store
               /\ \A b \in Values :
                     \A wr \in { Write(After, b) } :
                        wr.err = Nil /\ wr.n = Len(b) /\ wr.f.value = b
               /\ \A b \in Values : StoredAfterWriteClose(store', After, b) = b)
        /\ (OpenFileOfKey /\ last'.flag = { "O_RDWR" })
           => (/\ last'.err = Nil
               /\ WritableFile(After)
               /\ After.value = OpenedValue /\ After.pos = 0
               /\ store' = store
               /\ \A b \in Values :
                     \A wr \in { Write(After, b) } :
                        /\ wr.err = Nil /\ wr.n = Len(b)
                        /\ wr.f.value
                              = b \o SubSeq(OpenedValue, Len(b) + 1, Len(OpenedValue))
               /\ \A b \in Values :
                     StoredAfterWriteClose(store', After, b)
                        = b \o SubSeq(OpenedValue, Len(b) + 1, Len(OpenedValue)))
        /\ (Made("Close") /\ WritableFile(Before))
           => (/\ last'.err = Nil
               /\ SecretAt(store', Before.spath).data[Before.spath.key]
                     = Before.value) ]_vars

\* OpenFile with O_TRUNC and O_RDWR of a key holding 1 has returned an empty File
C20_Witness ==
    /\ last.op = "OpenFile" /\ last.flag = { "O_TRUNC", "O_RDWR" } /\ last.err = Nil
    /\ ~PathOfName(last.name).isDir
    /\ SecretAt(last.pre, PathOfName(last.name)).data[PathOfName(last.name).key] = << 1 >>
    /\ Holds(last.h) /\ Held(last.h).value = << >> /\ Held(last.h).pos = 0

\* Close of a File at position 1 has stored 0 in the key that held 1, 1
C20_WitnessStored ==
    /\ last.op = "Close" /\ last.err = Nil
    /\ ~PathOfName(last.name).isDir
    /\ SecretAt(last.pre, PathOfName(last.name)).data[PathOfName(last.name).key] = << 1, 1 >>
    /\ SecretAt(store, PathOfName(last.name)).data[PathOfName(last.name).key] = << 0 >>
    /\ Holds(last.h) /\ Held(last.h).pos = 1

\* OpenFile with O_RDWR of a key holding 1, 1 has returned a File of 1, 1 at 0
C20_WitnessKeep ==
    /\ last.op = "OpenFile" /\ last.flag = { "O_RDWR" } /\ last.err = Nil
    /\ ~PathOfName(last.name).isDir
    /\ SecretAt(last.pre, PathOfName(last.name)).data[PathOfName(last.name).key] = << 1, 1 >>
    /\ Holds(last.h) /\ Held(last.h).value = << 1, 1 >> /\ Held(last.h).pos = 0

\* n separators
Slashes(n) == [i \in 1..n |-> Slash]

NoSlash(s) == \A i \in 1..Len(s) : s[i] # Slash

\* name without its leading and trailing separators: the part of name that
\* neither starts nor ends with a separator and has only separators around it
Stripped(name) ==
    CHOOSE t \in { SubSeq(name, i, j) : i \in 1..(Len(name) + 1), j \in 0..Len(name) } :
        /\ t = EmptyStr \/ (t[1] # Slash /\ t[Len(t)] # Slash)
        /\ \E i \in 0..Len(name), j \in 0..Len(name) :
              name = Slashes(i) \o t \o Slashes(j)

\* the number of segments of t between its separators
SegmentCount(t) == Cardinality({ i \in 1..Len(t) : t[i] = Slash }) + 1

\* newSecretPath has returned a path for the name
Parsed == last.op = "newSecretPath" /\ last.err = Nil

(***************************************************************************)
(* C21: newSecretPath(name) succeeds exactly when name without its leading *)
(* and trailing separators has 2 or 3 segments, and returns EINVAL for any *)
(* other count.  With 2 segments the path is a directory with empty key,   *)
(* with 3 a file whose key is the third segment, which is not empty;       *)
(* namespace and secret are the first and the second segment.              *)
(***************************************************************************)
C21_Parse ==
    last.op = "newSecretPath"
    => /\ last.err = Nil <=> SegmentCount(Stripped(last.name)) \in { 2, 3 }
       /\ last.err # Nil => last.err = "EINVAL"
       /\ last.err = Nil
          => /\ NoSlash(last.path.namespace)
             /\ NoSlash(last.path.secret)
             /\ NoSlash(last.path.key)
             /\ last.path.isDir <=> SegmentCount(Stripped(last.name)) = 2
             /\ last.path.isDir
                => /\ last.path.key = EmptyStr
                   /\ Stripped(last.name)
                         = last.path.namespace \o <<Slash>> \o last.path.secret
             /\ ~last.path.isDir
                => /\ last.path.key # EmptyStr
                   /\ Stripped(last.name)
                         = last.path.namespace \o <<Slash>> \o last.path.secret
                              \o <<Slash>> \o last.path.key

\* the name /a/.a/a has been parsed: a file with key a of secret .a
C21_Witness ==
    /\ Parsed
    /\ last.name = << Slash, "a", Slash, ".", "a", Slash, "a" >>
    /\ last.path = [namespace |-> << "a" >>, secret |-> << ".", "a" >>,
                    key |-> << "a" >>, isDir |-> FALSE]

\* a name of four segments has been refused
C21_WitnessInvalid ==
    /\ last.op = "newSecretPath" /\ last.err = "EINVAL"
    /\ last.name = << "a", Slash, "a", Slash, "a", Slash, "a" >>

\* a name of two segments between separators has been parsed
C21_WitnessDir ==
    /\ Parsed
    /\ last.name = << Slash, "a", Slash, "a", "a", Slash, Slash >>
    /\ last.path = [namespace |-> << "a" >>, secret |-> << "a", "a" >>,
                    key |-> EmptyStr, isDir |-> TRUE]

(***************************************************************************)
(* C22: for every name that newSecretPath accepts, Absolute of the path is *)
(* the name without its leading and trailing separators, and               *)
(* newSecretPath of that string returns the same path.                     *)
(***************************************************************************)
C22_RoundTrip ==
    Parsed
    => /\ last.to = Stripped(last.name)
       /\ newSecretPath(last.to).err = Nil
       /\ newSecretPath(last.to).p = last.path

\* the same for the names whose segments are not empty and are neither "."
\* nor ".."
C22_RoundTripPlain ==
    (/\ Parsed
     /\ \A x \in { last.path.namespace, last.path.secret } \cup
                    (IF last.path.isDir THEN {} ELSE { last.path.key }) :
           x \notin { EmptyStr, Dot, DotDot })
    => /\ last.to = Stripped(last.name)
       /\ newSecretPath(last.to).err = Nil
       /\ newSecretPath(last.to).p = last.path

\* the name a//a has been parsed: the file a of the secret with the empty
\* name, whose Absolute string a/a is the path of a secret
C22_WitnessEmpty ==
    /\ Parsed
    /\ last.name = << "a", Slash, Slash, "a" >>
    /\ last.path.secret = EmptyStr /\ ~last.path.isDir
    /\ last.to = << "a", Slash, "a" >>

\* the secret c is in the cluster without the annotation of secfs
Foreign(st, c) == st[c].exists /\ ~st[c].managed

\* the secret that the name of this step's call addresses
Addressed == Obj(PathOfName(last'.name).namespace, internalName(PathOfName(last'.name).secret))

(***************************************************************************)
(* C23: a secret without the annotation of secfs is never adopted.  No     *)
(* call (Mkdir, Create, Open, OpenFile, Write, Sync, Close, Remove,        *)
(* RemoveAll, Rename from it or onto it) changes or deletes it, and Open   *)
(* and Stat of its path or of the path of one of its keys return           *)
(* ErrNotManaged and no File.                                              *)
(***************************************************************************)
C23_ForeignKept ==
    [][ /\ \A c \in StoreKeys : Foreign(store, c) => store'[c] = store[c]
        /\ (Made("Open") /\ Valid(last'.name) /\ Foreign(store, Addressed))
           => (/\ last'.err = "ErrNotManaged"
               /\ handles' = handles
               /\ Stat(World(store, 0), last'.name).err = "ErrNotManaged") ]_vars

\* Close of a File with the unsaved byte 0 has failed with ErrNotManaged: the
\* secret of its key has lost the annotation since the File was made
C23_Witness ==
    /\ last.op = "Close" /\ last.err = "ErrNotManaged"
    /\ Holds(last.h) /\ Held(last.h).value = << 0 >> /\ ~Held(last.h).closed
    /\ Foreign(last.pre, Obj(Held(last.h).spath.namespace, internalName(Held(last.h).spath.secret)))
    /\ store = last.pre

\* Open of a secret without the annotation has returned ErrNotManaged
C23_WitnessOpen ==
    /\ last.op = "Open" /\ last.err = "ErrNotManaged"
    /\ PathOfName(last.name).isDir
    /\ Foreign(last.pre, Obj(PathOfName(last.name).namespace, internalName(PathOfName(last.name).secret)))

\* a Rename of a secret onto a secret without the annotation has failed and
\* both are as they were
C23_WitnessRename ==
    /\ last.op = "Rename" /\ last.err # Nil
    /\ PathOfName(last.name).isDir /\ PathOfName(last.to).isDir
    /\ Resolves(last.pre, PathOfName(last.name))
    /\ Foreign(last.pre, Obj(PathOfName(last.to).namespace, internalName(PathOfName(last.to).secret)))
    /\ store = last.pre

\* RemoveAll of a secret without the annotation has failed
C23_WitnessRemoveAll ==
    /\ last.op = "RemoveAll" /\ last.err # Nil
    /\ PathOfName(last.name).isDir
    /\ Foreign(last.pre, Obj(PathOfName(last.name).namespace, internalName(PathOfName(last.name).secret)))
    /\ store = last.pre

\* the File after the call c
Apply(f, c) ==
    CASE c.op = "Write" -> Write(f, c.p).f
      [] c.op = "WriteString" -> WriteString(f, c.p).f
      [] c.op = "Read" -> Read(f, c.len).f
      [] c.op = "Seek" -> Seek(f, c.offset, c.whence).f

\* the File after the calls cs, one after the other
RECURSIVE Run(_, _)
Run(f, cs) == IF cs = << >> THEN f ELSE Run(Apply(f, Head(cs)), Tail(cs))

\* the orders of the goroutines
Orders == { o \in [Procs -> Procs] : \A i \in Procs, j \in Procs : o[i] = o[j] => i = j }

\* every goroutine has returned from its call
AllReturned == last.op = "go" /\ \A i \in DOMAIN last.procs : last.procs[i].pc = "done"

\* the File as it was when the goroutines started
FileAtGo == [Held(last.h) EXCEPT !.value = last.buf, !.pos = last.n]

(***************************************************************************)
(* C24: concurrent Read, Write, WriteString and Seek calls on one File are *)
(* serialized: when all have returned, the value and the position of the   *)
(* File are those that the same calls give when made one after the other,  *)
(* in some order.                                                          *)
(***************************************************************************)
C24_Serialized ==
    AllReturned
    => \E o \in Orders :
          \E f \in { Run(FileAtGo, [i \in Procs |-> last.procs[o[i]].call]) } :
             /\ Held(last.h).value = f.value
             /\ Held(last.h).pos = f.pos

\* two goroutines have written one byte each to an empty File at position 0
\* and returned: the File holds one byte
C24_WitnessSameOffset ==
    /\ AllReturned
    /\ \A i \in DOMAIN last.procs :
          last.procs[i].call.op \in { "Write", "WriteString" } /\ last.procs[i].err = Nil
    /\ last.buf = << >> /\ last.n = 0
    /\ Len(Held(last.h).value) = 1

\* two goroutines have read one byte each of a File of one byte at position
\* 0, both got the byte, and the position is 1
C24_WitnessLostUpdate ==
    /\ AllReturned
    /\ \A i \in DOMAIN last.procs :
          last.procs[i].call.op = "Read" /\ last.procs[i].n = 1
    /\ last.n = 0
    /\ Held(last.h).pos = 1

(***************************************************************************)
(* The bytes of a File                                                     *)
(***************************************************************************)
\* the call made in this step is a call of op on an open File of a key
OnOpenLeaf(op) == Made(op) /\ validateRO(Before) = Nil

\* the bytes of value from offset off on
Rest(value, off) == IF off >= Len(value) THEN << >> ELSE SubSeq(value, off + 1, Len(value))

\* the bytes left to the call made in this step: from the position on for
\* Read, from the offset on for ReadAt
Remaining ==
    IF last'.op = "Read" THEN Rest(Before.value, Before.pos)
    ELSE Rest(Before.value, last'.off)

\* C25 as it is stated: with r bytes left and a buffer of length L, Read and
\* ReadAt on an open File of a key give (L, nil) when r >= L and (r, io.EOF)
\* when r < L, and (0, io.EOF) on an empty value.
C25_ReadRule ==
    [][OnOpenLeaf("Read") \/ OnOpenLeaf("ReadAt") =>
          IF Len(Before.value) = 0 THEN last'.n = 0 /\ last'.err = "EOF"
          ELSE IF Len(Remaining) >= last'.len
          THEN last'.n = last'.len /\ last'.err = Nil
          ELSE last'.n = Len(Remaining) /\ last'.err = "EOF"]_vars

\* C25: with r bytes left and a buffer of length L, Read and ReadAt on an
\* open File of a key give the first min(L, r) bytes left.  Both give
\* (0, io.EOF) when r = 0, whatever L is.  When r > 0, Read gives
\* (min(L, r), nil), also when r < L, and ReadAt gives (L, nil) when r >= L
\* and (r, io.EOF) when r < L.
C25_ReadResult ==
    [][OnOpenLeaf("Read") \/ OnOpenLeaf("ReadAt") =>
          /\ last'.n = Min(last'.len, Len(Remaining))
          /\ last'.buf = SubSeq(Remaining, 1, last'.n)
          /\ last'.err \in { Nil, "EOF" }
          /\ last'.err = "EOF" <=>
                \/ Len(Remaining) = 0
                \/ last'.op = "ReadAt" /\ Len(Remaining) < last'.len]_vars

\* a Read into a buffer longer than what is left gave what is left and no error
C25_Witness ==
    /\ last.op = "Read" /\ last.len = 2 /\ last.n = 1
    /\ last.buf = << 1 >>
    /\ last.err = Nil

\* a ReadAt into a buffer longer than what is left gave what is left and io.EOF
C25_WitnessReadAt ==
    /\ last.op = "ReadAt" /\ last.len = 2 /\ last.off = 1 /\ last.n = 1
    /\ last.err = "EOF"
    /\ Len(Held(last.h).value) = 2

\* a Read of no bytes at the end of a value that is not empty gave io.EOF
C25_WitnessEnd ==
    /\ last.op = "Read" /\ last.len = 0 /\ last.n = 0
    /\ last.err = "EOF"
    /\ Len(Held(last.h).value) > 0

\* C26: WriteAt(buf, off) with off >= 0 on an open, writable File of a key
\* returns len(buf) and no error; the value is then max(old length,
\* off + len(buf)) bytes long, holds buf at [off, off + len(buf)), its old
\* bytes everywhere else below the old length, and zero bytes between the
\* old length and off.
C26_WriteAt ==
    [][Made("WriteAt") /\ WritableFile(Before) /\ last'.off >= 0 =>
          /\ last'.err = Nil
          /\ last'.n = Len(last'.buf)
          /\ Len(After.value) = Max(Len(Before.value), last'.off + Len(last'.buf))
          /\ \A i \in 1..Len(After.value) :
                After.value[i] =
                    IF i > last'.off /\ i <= last'.off + Len(last'.buf)
                    THEN last'.buf[i - last'.off]
                    ELSE IF i <= Len(Before.value) THEN Before.value[i]
                    ELSE 0]_vars

\* a WriteAt behind the end of an empty value left a zero byte before its byte
C26_Witness ==
    /\ last.op = "WriteAt" /\ last.off = 1 /\ last.buf = << 1 >>
    /\ last.err = Nil /\ last.n = 1
    /\ Held(last.h).value = << 0, 1 >>
    /\ Held(last.h).pos = 0

\* a WriteAt of one byte into a longer value kept the bytes behind it
C26_WitnessKeep ==
    /\ last.op = "WriteAt" /\ last.off = 0 /\ last.buf = << 0 >>
    /\ last.err = Nil
    /\ Held(last.h).value = << 0, 1 >>

\* C27: Truncate only shrinks.  On an open, writable File of a key whose
\* value is m bytes long, Truncate(n) with 0 <= n < m leaves the first n
\* bytes of the value, and Truncate(n) with n >= m leaves the value as it
\* is; both return no error.
C27_TruncateShrinks ==
    [][Made("Truncate") /\ WritableFile(Before) /\ last'.n >= 0 =>
          /\ last'.err = Nil
          /\ last'.n < Len(Before.value) =>
                After.value = SubSeq(Before.value, 1, last'.n)
          /\ last'.n >= Len(Before.value) => After.value = Before.value]_vars

\* a Truncate to one byte returned on a File written up to its second byte,
\* which now holds one byte
C27_Witness ==
    /\ last.op = "Truncate" /\ last.n = 1
    /\ last.err = Nil
    /\ Held(last.h).value = << 0 >>
    /\ Held(last.h).pos = 2

\* a Truncate to two bytes left a value of one byte as it was
C27_WitnessKeep ==
    /\ last.op = "Truncate" /\ last.n = 2
    /\ last.err = Nil
    /\ Len(Held(last.h).value) = 1

\* the position the Seek made in this step asks for
Target ==
    IF last'.whence = SeekStart THEN last'.off
    ELSE IF last'.whence = SeekCurrent THEN Before.pos + last'.off
    ELSE Len(Before.value) + last'.off

\* n zero bytes
ZeroBytes(n) == [i \in 1..n |-> 0]

\* C28: Seek(offset, whence) on an open File of a key sets and returns the
\* position offset (io.SeekStart), position + offset (io.SeekCurrent) or
\* len(value) + offset (io.SeekEnd), also when it lies behind the end of
\* the value; a Write(B) at a position behind the end stores B there and
\* zero bytes between the old end and B.  A Seek to a negative position
\* fails and leaves the position as it is, so no position is negative.
C28_Seek ==
    [][(OnOpenLeaf("Seek") /\ last'.whence \in { SeekStart, SeekCurrent, SeekEnd } =>
           /\ After.value = Before.value
           /\ Target >= 0 => last'.err = Nil /\ last'.n = Target /\ After.pos = Target
           /\ Target < 0 => last'.err # Nil /\ last'.n = 0 /\ After.pos = Before.pos
           /\ After.pos >= 0)
       /\ (Made("Write") /\ WritableFile(Before) /\ Before.pos > Len(Before.value) =>
              /\ last'.err = Nil
              /\ After.value = Before.value
                                  \o ZeroBytes(Before.pos - Len(Before.value))
                                  \o last'.buf)]_vars

\* a Seek behind the end of an empty value returned the position it asked for
C28_Witness ==
    /\ last.op = "Seek" /\ last.off = 1 /\ last.whence = SeekStart
    /\ last.err = Nil /\ last.n = 1
    /\ Held(last.h).pos = 1
    /\ Held(last.h).value = << >>

\* a Seek before the start failed and left the position
C28_WitnessNegative ==
    /\ last.op = "Seek" /\ last.off = 0 - 1 /\ last.whence = SeekEnd
    /\ last.err = "ErrNegativePosition" /\ last.n = 0
    /\ Held(last.h).value = << >>
    /\ Held(last.h).pos = 1

\* a Write of one byte returned on a File whose value is a zero byte and
\* the byte written
C28_WitnessGap ==
    /\ last.op = "Write" /\ last.buf = << 1 >>
    /\ last.err = Nil
    /\ Held(last.h).value = << 0, 1 >>
    /\ Held(last.h).pos = 2
    /\ store[FileSecret].data[<<"k1">>] = << >>

(***************************************************************************)
(* The File of a secret                                                    *)
(***************************************************************************)
\* C29 as it is stated: on the File of a secret, Read, ReadAt, Seek, Write,
\* WriteAt, WriteString, Truncate and Sync return EISDIR, also after the
\* File was closed, and never ErrFileClosed.
C29_DirFirst ==
    [][last'.op \in StreamOps /\ Before.spath.isDir => last'.err = "EISDIR"]_vars

\* C29: closed is looked at before the kind of the path.  On the File of a
\* secret, Read, ReadAt, Seek, Write, WriteAt, WriteString, Truncate and
\* Sync return EISDIR while the File is open and ErrFileClosed once it was
\* closed; they transfer no byte and leave the File and the cluster as
\* they were.
C29_ClosedFirst ==
    [][last'.op \in StreamOps /\ Before.spath.isDir =>
          /\ last'.err = IF Before.closed THEN "ErrFileClosed" ELSE "EISDIR"
          /\ last'.n = 0 \/ Made("Truncate")
          /\ After = Before
          /\ store' = store]_vars

\* a Read on the closed File of a secret returned ErrFileClosed
C29_Witness ==
    /\ last.op = "Read" /\ last.err = "ErrFileClosed"
    /\ Holds(last.h)
    /\ Held(last.h).spath.isDir /\ Held(last.h).closed

\* a Sync on the open File of a secret returned EISDIR
C29_WitnessOpen ==
    /\ last.op = "Sync" /\ last.err = "EISDIR"
    /\ Holds(last.h)
    /\ Held(last.h).spath.isDir /\ ~Held(last.h).closed

\* a Truncate on the closed File of a secret returned ErrFileClosed
C29_WitnessTruncate ==
    /\ last.op = "Truncate" /\ last.err = "ErrFileClosed"
    /\ Holds(last.h)
    /\ Held(last.h).spath.isDir /\ Held(last.h).closed

\* the bytes of value at [off, off + n)
Slice(value, off, n) == SubSeq(value, off + 1, off + n)

\* C30: on an open File of a key, Write(B) and WriteString(B) (writable
\* File) store B at [pos, pos + len(B)) and move the position forward by
\* len(B); Read moves it forward by the number of bytes it returns, which
\* are the bytes it passes; ReadAt, WriteAt and Truncate leave the
\* position where it was.
C30_Position ==
    [][/\ (Made("Write") \/ Made("WriteString")) /\ WritableFile(Before) =>
             /\ last'.err = Nil /\ last'.n = Len(last'.buf)
             /\ After.pos = Before.pos + Len(last'.buf)
             /\ Slice(After.value, Before.pos, Len(last'.buf)) = last'.buf
       /\ OnOpenLeaf("Read") =>
             /\ After.pos = Before.pos + last'.n
             /\ last'.buf = Slice(Before.value, Before.pos, last'.n)
       /\ last'.op \in { "ReadAt", "WriteAt", "Truncate" } =>
             After.pos = Before.pos]_vars

\* a WriteString of one byte at position 1 moved the position to 2
C30_Witness ==
    /\ last.op = "WriteString" /\ last.buf = << 1 >> /\ last.n = 1
    /\ last.err = Nil
    /\ Held(last.h).pos = 2
    /\ Held(last.h).value = << 1, 1 >>

\* a Read of one byte moved the position to 1
C30_WitnessRead ==
    /\ last.op = "Read" /\ last.n = 1 /\ last.err = Nil
    /\ Held(last.h).pos = 1
    /\ Len(Held(last.h).value) = 2

\* a WriteAt behind the position left the position
C30_WitnessWriteAt ==
    /\ last.op = "WriteAt" /\ last.off = 1 /\ last.n = 1 /\ last.err = Nil
    /\ Held(last.h).pos = 0

\* the entries are keys of the File's map, each of them once, as many as
\* count asks for
EntriesOf(f, entries, count) ==
    /\ \A i \in 1..Len(entries) : entries[i] \in DOMAIN f.data
    /\ \A i, j \in 1..Len(entries) : entries[i] = entries[j] => i = j
    /\ Len(entries) = IF count <= 0 THEN Cardinality(DOMAIN f.data)
                      ELSE Min(count, Cardinality(DOMAIN f.data))

\* C31: Readdir(count) on the File of a secret returns no error and entries
\* whose names are keys of the File's map, no key twice: one for every key
\* when count <= 0, and min(count, number of keys) of them when count > 0.
\* Readdirnames(count) returns the names of such entries.
C31_Readdir ==
    [][last'.op \in { "Readdir", "Readdirnames" } /\ Before.spath.isDir =>
          /\ last'.err = Nil
          /\ EntriesOf(Before, last'.entries, last'.count)
          /\ last'.n = Len(last'.entries)
          /\ After = Before
          /\ store' = store]_vars

\* a Readdir of one entry on the File of a secret with two keys returned one
C31_Witness ==
    /\ last.op = "Readdir" /\ last.count = 1
    /\ last.err = Nil
    /\ Len(last.entries) = 1
    /\ DOMAIN Held(last.h).data = Keys

\* a Readdirnames of all entries returned the names of both keys
C31_WitnessNames ==
    /\ last.op = "Readdirnames" /\ last.count = 0 - 1
    /\ last.err = Nil
    /\ last.entries = << <<"k2">>, <<"k1">> >>

\* a Readdir of two entries on the File of a secret with no key returned none
C31_WitnessEmpty ==
    /\ last.op = "Readdir" /\ last.count = 2
    /\ last.err = Nil
    /\ last.entries = << >>
    /\ Held(last.h).spath.isDir

(***************************************************************************)
(* Two Files of one secret                                                 *)
(***************************************************************************)
\* the call made in this step flushes an open, writable File of a key
Flushes == (Made("Sync") \/ Made("Close")) /\ WritableFile(Before)

\* the keys of the secret of the File of the call, before and after the step
KeysBefore == store[ObjOf(Before.spath)].data

KeysAfter == store'[ObjOf(Before.spath)].data

\* the variable of the caller that is not h
Other(h) == CHOOSE g \in BothHandles : g # h

\* C32: the last write wins.  Sync and Close of an open, writable File of a
\* key of a managed secret return no error, whatever the cluster holds for
\* the key and whatever the File loaded when it was opened, and the cluster
\* then holds the File's value for the key: of two Files of one key, the
\* one flushed last.
C32_LastWriteWins ==
    [][Flushes /\ store[ObjOf(Before.spath)].exists
               /\ store[ObjOf(Before.spath)].managed =>
          /\ last'.err = Nil
          /\ Before.key \in DOMAIN KeysAfter
          /\ KeysAfter[Before.key] = Before.value]_vars

\* two Files of one key: the other one stored its value, then this one, opened
\* before that, was synced and the cluster holds this one's value
C32_Witness ==
    /\ last.op = "Sync" /\ last.err = Nil
    /\ Holds(last.h) /\ Holds(Other(last.h))
    /\ Held(last.h).key = <<"k1">> /\ Held(Other(last.h)).key = <<"k1">>
    /\ Held(last.h).value # Held(Other(last.h)).value
    /\ <<"k1">> \in DOMAIN last.pre[FileSecret].data
    /\ <<"k1">> \in DOMAIN Held(last.h).data \cap DOMAIN Held(Other(last.h)).data
    /\ last.pre[FileSecret].data[<<"k1">>] = Held(Other(last.h)).value
    /\ Held(last.h).data[<<"k1">>] # last.pre[FileSecret].data[<<"k1">>]
    /\ Held(last.h).data[<<"k1">>] # Held(Other(last.h)).data[<<"k1">>]
    /\ store[FileSecret].data[<<"k1">>] = Held(last.h).value

\* the same with a Close as the last flush
C32_WitnessClose ==
    /\ last.op = "Close" /\ last.err = Nil
    /\ Holds(last.h) /\ Holds(Other(last.h))
    /\ Held(last.h).key = <<"k1">> /\ Held(Other(last.h)).key = <<"k1">>
    /\ Held(last.h).value # Held(Other(last.h)).value
    /\ <<"k1">> \in DOMAIN last.pre[FileSecret].data
    /\ <<"k1">> \in DOMAIN Held(last.h).data \cap DOMAIN Held(Other(last.h)).data
    /\ last.pre[FileSecret].data[<<"k1">>] = Held(Other(last.h)).value
    /\ store[FileSecret].data[<<"k1">>] = Held(last.h).value

(***************************************************************************)
(* Errors of the cluster                                                   *)
(***************************************************************************)
\* the world the call made in this step leaves
ResultWorld ==
    CASE last'.op = "Mkdir" -> secfsMkdir(World(store, last'.fault), last'.name).w
      [] last'.op = "Create" -> secfsCreate(World(store, last'.fault), last'.name).w
      [] last'.op = "Open" -> Open(World(store, last'.fault), last'.name).w
      [] last'.op = "Remove" -> secfsRemove(World(store, last'.fault), last'.name).w
      [] last'.op = "RemoveAll" -> secfsRemoveAll(World(store, last'.fault), last'.name).w
      [] last'.op = "Rename" ->
            secfsRename(World(store, last'.fault), last'.name, last'.to).w
      [] OTHER -> World(store, last'.fault)

\* the call made in this step is one of ops, and either a request of it
\* failed in the cluster, or it had to read a secret without the annotation
FailedIn(ops) ==
    /\ last'.op \in ops
    /\ \/ RequestFailed(ResultWorld)
       \/ /\ last'.fault = 0
          /\ last'.op \in { "Create", "Open", "Remove", "RemoveAll" }
          /\ Valid(last'.name)
          /\ Foreign(store, Addressed)

\* the error the cluster or the backend gave, as the caller gets it
Unchanged ==
    /\ RequestFailed(ResultWorld) => last'.err = "ETransport"
    /\ ~RequestFailed(ResultWorld) => last'.err = "ErrNotManaged"

\* C33: a failure of the backend other than not-found (a secret without
\* the annotation, a timeout, a failed request) is returned as it is by
\* Mkdir, Create, Open, Remove, RemoveAll and Rename, and is never reported
\* as ErrNotExist or ErrExist; Create of a key of a secret without the
\* annotation returns ErrNotManaged.
C33_Unchanged ==
    [][FailedIn({ "Mkdir", "Create", "Open", "Remove", "RemoveAll", "Rename" })
          => Unchanged]_vars

\* what holds of C33: Mkdir, Open, Remove and RemoveAll return the failure
\* of the backend as it is
C33_UnchangedElsewhere ==
    [][FailedIn({ "Mkdir", "Open", "Remove", "RemoveAll" }) => Unchanged]_vars

\* a Create of a key of a secret without the annotation returned ErrNotExist
C33_WitnessForeign ==
    /\ last.op = "Create" /\ last.fault = 0
    /\ last.name = LeafName(FileSecret, <<"k1">>)
    /\ Foreign(last.pre, FileSecret)
    /\ last.err = "ErrNotExist"

\* a Create whose first request failed returned ErrNotExist
C33_WitnessTransport ==
    /\ last.op = "Create" /\ last.fault = 1
    /\ last.name = LeafName(FileSecret, <<"k1">>)
    /\ last.err = "ErrNotExist"

(***************************************************************************)
(* What reaches the cluster                                                *)
(***************************************************************************)
\* the keys and values the cluster holds
KeyValues(st) == [c \in StoreKeys |-> st[c].data]

\* the calls that send a key to the cluster or take one from it
StoringOps == { "Create", "Sync", "Close", "Remove", "RemoveAll", "Rename" }

\* OpenFile with O_CREATE of a key the cluster does not hold: its Create
CreatesByOpenFile ==
    /\ Made("OpenFile") /\ "O_CREATE" \in last'.flag
    /\ Valid(last'.name) /\ ~PathOfName(last'.name).isDir
    /\ ~HasKey(store, PathOfName(last'.name), PathOfName(last'.name).key)
    /\ store' = secfsCreate(World(store, 0), last'.name).w.st

\* C34: the bytes of a File are in memory until it is flushed.  Write,
\* WriteAt, WriteString, Truncate and Seek never change the cluster, and
\* the keys and values of the cluster change only in Create (also the
\* Create that OpenFile with O_CREATE makes for a key that is not there),
\* Sync, Close, Remove, RemoveAll and Rename: OpenFile with O_TRUNC of a
\* stored key and Write leave the stored value, which an Open still gets.
C34_InMemory ==
    [][/\ last'.op \in { "Write", "WriteAt", "WriteString", "Truncate", "Seek" }
             => store' = store
       /\ KeyValues(store') # KeyValues(store)
             => last'.op \in StoringOps \/ CreatesByOpenFile
       /\ OpenFileOfKey => store' = store]_vars

\* OpenFile with O_TRUNC and O_RDWR returned an empty File of a key for
\* which the cluster still holds a byte
C34_Witness ==
    /\ last.op = "OpenFile" /\ last.flag = { "O_TRUNC", "O_RDWR" }
    /\ last.err = Nil
    /\ Held(last.h).value = << >>
    /\ Held(last.h).key = <<"k1">>
    /\ <<"k1">> \in DOMAIN store[FileSecret].data
    /\ store[FileSecret].data[<<"k1">>] = << 1 >>

\* a Write returned on a File whose value the cluster does not hold
C34_WitnessWrite ==
    /\ last.op = "Write" /\ last.err = Nil /\ last.buf = << 0, 0 >>
    /\ Held(last.h).value = << 0, 0 >>
    /\ <<"k1">> \in DOMAIN store[FileSecret].data
    /\ store[FileSecret].data[<<"k1">>] = << 1 >>
    /\ Open(World(store, 0), Held(last.h).name).f.value = << 1 >>

\* OpenFile with O_CREATE made a key that was not there
C34_WitnessCreate ==
    /\ last.op = "OpenFile" /\ "O_CREATE" \in last.flag
    /\ last.err = Nil
    /\ <<"k1">> \notin DOMAIN last.pre[FileSecret].data
    /\ <<"k1">> \in DOMAIN store[FileSecret].data

(***************************************************************************)
(* Rename, step by step                                                    *)
(***************************************************************************)
\* the cluster st holds value v under key k of the secret of path p
HoldsValue(st, p, k, v) == HasKey(st, p, k) /\ SecretAt(st, p).data[k] = v

\* the cluster st holds the mapping d under the name of path p
HoldsData(st, p, d) == Resolves(st, p) /\ SecretAt(st, p).data = d

\* C35: Rename has no window in which data is lost.  Whatever request of a
\* Rename fails, and so after every request it has sent, the value of a
\* renamed key is under the old key or under the new one, and the mapping
\* of a renamed secret is under the old name or under the new one: the new
\* one is written before the old one is deleted.
C35_NoLossWindow ==
    [][Made("Rename") /\ Valid(last'.name) /\ Valid(last'.to) =>
          /\ (/\ ~PathOfName(last'.name).isDir
              /\ HasKey(store, PathOfName(last'.name), PathOfName(last'.name).key)
              /\ DestCell(last'.name, last'.to) # SrcCell(last'.name))
             => \E v \in { SecretAt(store, PathOfName(last'.name)).data[PathOfName(last'.name).key] } :
                   \/ HoldsValue(store', PathOfName(last'.name), PathOfName(last'.name).key, v)
                   \/ HoldsValue(store', PathOfName(last'.to), DestKey(last'.name, last'.to), v)
          /\ (/\ PathOfName(last'.name).isDir /\ PathOfName(last'.to).isDir
              /\ Resolves(store, PathOfName(last'.name))
              /\ ObjOf(PathOfName(last'.name)) # ObjOf(PathOfName(last'.to)))
             => \E d \in { SecretAt(store, PathOfName(last'.name)).data } :
                   \/ HoldsData(store', PathOfName(last'.name), d)
                   \/ HoldsData(store', PathOfName(last'.to), d)]_vars

\* a Rename of a secret with two keys failed at its last request, the
\* deletion of the old secret: both names hold the mapping
C35_Witness ==
    /\ last.op = "Rename" /\ last.fault = 4 /\ last.err = "ETransport"
    /\ last.name = DirName(<< <<"n1">>, <<"s1">> >>)
    /\ last.to = DirName(<< <<"n1">>, <<"s2">> >>)
    /\ DOMAIN SecretAt(last.pre, PathOfName(last.name)).data = Keys
    /\ Missing(last.pre, PathOfName(last.to))
    /\ HoldsData(store, PathOfName(last.to), SecretAt(last.pre, PathOfName(last.name)).data)
    /\ HoldsData(store, PathOfName(last.name), SecretAt(last.pre, PathOfName(last.name)).data)

\* a Rename of a key failed after the new key was created and before it
\* got the value: the old key holds the value, the new one is empty
C35_WitnessCreated ==
    /\ last.op = "Rename" /\ last.fault > 0 /\ last.err # Nil
    /\ last.name = LeafName(<< <<"n1">>, <<"s1">> >>, <<"k1">>)
    /\ last.to = LeafName(<< <<"n1">>, <<"s1">> >>, <<"k2">>)
    /\ HoldsValue(last.pre, PathOfName(last.name), <<"k1">>, << 1 >>)
    /\ ~HasKey(last.pre, PathOfName(last.to), <<"k2">>)
    /\ HoldsValue(store, PathOfName(last.name), <<"k1">>, << 1 >>)
    /\ HoldsValue(store, PathOfName(last.to), <<"k2">>, << >>)

\* a Rename of a key succeeded: the new key holds the value, the old is gone
C35_WitnessMoved ==
    /\ last.op = "Rename" /\ last.fault = 0 /\ last.err = Nil
    /\ last.name = LeafName(<< <<"n1">>, <<"s1">> >>, <<"k1">>)
    /\ last.to = LeafName(<< <<"n1">>, <<"s2">> >>, <<"k1">>)
    /\ HoldsValue(last.pre, PathOfName(last.name), <<"k1">>, << 1 >>)
    /\ ~HasKey(store, PathOfName(last.name), <<"k1">>)
    /\ HoldsValue(store, PathOfName(last.to), <<"k1">>, << 1 >>)

\* C36: a Rename onto itself is harmless.  Rename(p, p) of a key the
\* cluster holds, and Rename of such a key to the path of its own secret
\* (which gives the same key), leave the key in the cluster with its value.
C36_SelfRename ==
    [][(/\ Made("Rename") /\ last'.fault = 0
        /\ LeafRename(last'.name, last'.to)
        /\ HasKey(store, PathOfName(last'.name), PathOfName(last'.name).key)
        /\ DestCell(last'.name, last'.to) = SrcCell(last'.name))
       => \E v \in { SecretAt(store, PathOfName(last'.name)).data[PathOfName(last'.name).key] } :
             HoldsValue(store', PathOfName(last'.name), PathOfName(last'.name).key, v)]_vars

\* a Rename of a key onto itself returned no error and the key is gone
C36_WitnessGone ==
    /\ last.op = "Rename" /\ last.fault = 0 /\ last.err = Nil
    /\ last.name = LeafName(<< <<"n1">>, <<"s1">> >>, <<"k1">>)
    /\ last.to = last.name
    /\ HoldsValue(last.pre, PathOfName(last.name), <<"k1">>, << 1 >>)
    /\ Resolves(store, PathOfName(last.name))
    /\ ~HasKey(store, PathOfName(last.name), <<"k1">>)

\* a Rename of a key to the path of its secret returned no error and the
\* key is gone
C36_WitnessGoneDir ==
    /\ last.op = "Rename" /\ last.fault = 0 /\ last.err = Nil
    /\ last.name = LeafName(<< <<"n1">>, <<"s1">> >>, <<"k1">>)
    /\ last.to = DirName(<< <<"n1">>, <<"s1">> >>)
    /\ HoldsValue(last.pre, PathOfName(last.name), <<"k1">>, << 1 >>)
    /\ Resolves(store, PathOfName(last.name))
    /\ ~HasKey(store, PathOfName(last.name), <<"k1">>)

(***************************************************************************)
(* Files of removed keys                                                   *)
(***************************************************************************)
\* the calls that make a key
MakingOps == { "Create", "OpenFile", "Rename" }

\* C37: a removed key stays removed.  A key of a managed secret that is not
\* in the cluster comes into it only by a Create, an OpenFile with O_CREATE
\* or a Rename; Sync and Close of a writable File that was opened on the
\* key before its Remove do not make the key again.
C37_StaysRemoved ==
    [][\A k \in Keys :
          (/\ Resolves(store, PathOfName(DirName(FileSecret)))
           /\ k \notin DOMAIN store[FileSecret].data
           /\ k \in DOMAIN store'[FileSecret].data)
          => last'.op \in MakingOps]_vars

\* a Sync of a File opened before the Remove of its key returned no error
\* and the key is in the cluster again
C37_WitnessBack ==
    /\ last.op = "Sync" /\ last.err = Nil
    /\ Holds(last.h) /\ Held(last.h).key = <<"k1">>
    /\ <<"k1">> \in DOMAIN Held(last.h).data
    /\ <<"k1">> \notin DOMAIN last.pre[FileSecret].data
    /\ <<"k1">> \in DOMAIN store[FileSecret].data
    /\ store[FileSecret].data[<<"k1">>] = Held(last.h).value


\* the goroutine that calls Remove, and the one that calls Create
Remover == last.procs[1]

Creator == last.procs[2]

\* the key the Create has made is not in the cluster
CreatedKeyGone ==
    ~HasKey(store, PathOfName(Creator.name), PathOfName(Creator.name).key)

\* C38: when Remove of a secret runs next to Create of a key of that secret,
\* it is never so that both return nil and the created key is not in the
\* cluster: Remove deletes the secret only if it holds no key.
C38_NeverBoth ==
    ~(/\ AllReturned
      /\ Remover.op = "Remove" /\ Remover.name = DirName(FileSecret)
      /\ Creator.op = "Create"
      /\ Remover.err = Nil /\ Creator.err = Nil
      /\ CreatedKeyGone)

\* the keys of the secret other than the one of the File that is flushed
OtherKeys == Keys \ { Before.key }

\* the File in last.h is of key k1, the File in the other variable of key k2;
\* the other File's value is in the cluster for k2 and is not what the File
\* in last.h has loaded for k2
StaleOfOther(k1, k2) ==
    /\ Holds(last.h) /\ Holds(Other(last.h))
    /\ Held(last.h).key = k1 /\ Held(Other(last.h)).key = k2
    /\ k2 \in DOMAIN Held(last.h).data
    /\ k2 \in DOMAIN last.pre[FileSecret].data
    /\ last.pre[FileSecret].data[k2] = Held(Other(last.h)).value
    /\ Held(last.h).data[k2] # Held(Other(last.h)).value

\* C39: Sync and Close of a writable File change no key of the secret but
\* the File's own: every other key is in the cluster after the flush as it
\* was before, also when the map the File loaded is older.  Of two Files of
\* two keys, flushed in any order, the cluster holds both values.
C39_OtherKeysKept ==
    [][Flushes =>
          \A k \in OtherKeys :
             /\ k \in DOMAIN KeysBefore <=> k \in DOMAIN KeysAfter
             /\ k \in DOMAIN KeysBefore => KeysAfter[k] = KeysBefore[k]]_vars

\* two Files of two keys: the other one stored its value, then this one, which
\* loaded the secret before that, was synced; the cluster holds both values
C39_Witness ==
    /\ last.op = "Sync" /\ last.err = Nil
    /\ StaleOfOther(<<"k1">>, <<"k2">>)
    /\ HoldsValue(store, PathOfName(DirName(FileSecret)), <<"k1">>, Held(last.h).value)
    /\ HoldsValue(store, PathOfName(DirName(FileSecret)), <<"k2">>, Held(Other(last.h)).value)

\* the same with a Close as the last flush, after a write to this File
C39_WitnessClose ==
    /\ last.op = "Close" /\ last.err = Nil
    /\ StaleOfOther(<<"k2">>, <<"k1">>)
    /\ Held(last.h).value # Held(last.h).data[<<"k2">>]
    /\ HoldsValue(store, PathOfName(DirName(FileSecret)), <<"k2">>, Held(last.h).value)
    /\ HoldsValue(store, PathOfName(DirName(FileSecret)), <<"k1">>, Held(Other(last.h)).value)

\* C40: OpenFile with O_TRUNC and O_RDWR or O_WRONLY, with or without
\* O_APPEND, on a key that holds a value that is not empty returns a File
\* with no bytes at position 0, and Write(b) and Close then store exactly b.
C40_ExactlyWritten ==
    [][(/\ OpenFileOfKey
        /\ Truncating(last'.flag) /\ ~Exclusive(last'.flag)
        /\ OpenedValue # << >>)
       => (/\ last'.err = Nil
           /\ After.value = << >> /\ After.pos = 0
           /\ \A b \in Values : StoredAfterWriteClose(store', After, b) = b)]_vars

\* the File of an OpenFile with O_APPEND, O_TRUNC and O_RDWR holds no bytes
\* and stands behind them; a byte was written and the File closed, and the
\* key holds a zero byte and the byte
C40_WitnessZeros ==
    /\ last.op = "Close" /\ last.err = Nil
    /\ Holds(last.h) /\ Held(last.h).key = <<"k1">>
    /\ Held(last.h).value = << 0, 1 >> /\ Held(last.h).pos = 2
    /\ HoldsValue(store, PathOfName(DirName(FileSecret)), <<"k1">>, << 0, 1 >>)
====
